---- MODULE Spec2Model ----
(***************************************************************************)
(* A model of the marathon scraping / cleaning repository:                 *)
(*   - the URL generator        (marathons.py, prepare_res_urls)           *)
(*   - the crawl wrapper        (utils/scrap_utils.py, run_spider)         *)
(*   - the per-marathon cleaners (utils/data_processing_utils.py)          *)
(*   - age-category canonicalization (get_ham_age_cat_dict, get_age_cat,   *)
(*     the literal category merges)                                        *)
(*   - the imputation helpers, the unit conversions and valid_df           *)
(*   - the spiders' start_requests and parsers, the marathon objects       *)
(* Each part has its own specification over the shared variables; a part   *)
(* that a specification does not exercise stays in its idle value.         *)
(***************************************************************************)
EXTENDS Integers, Sequences, FiniteSets, TLC

VARIABLES
    \* ---- URL generator: one call of prepare_res_urls
    gen,        \* which generator is called: "base" | "chicago"
    pages,      \* the `pages` argument: a list of page-count strings
    flat_list,  \* the `flat_list` argument
    res,        \* the outcome of the call, NoCall before it
    \* ---- crawl wrapper: one call of run_spider
    caller,     \* the caller of run_spider: "idle" | "blocked" | "returned"
    retval,     \* what the decorated function body returned to wait_for
    fetch,      \* page fetches of the crawl: url index -> fetch state
    feed,       \* the feed file of the crawl: url indices in callback order
    \* ---- cleaners: one call of a per-marathon cleaner
    marathon,   \* whose data the table holds
    table,      \* the raw joined table handed to the cleaner (list of rows)
    out,        \* the outcome of the cleaner call, NoCall before it
    \* ---- age-category canonicalization: one application
    ac_fn,      \* which canonicalization is applied
    ac_in,      \* its input
    ac_out,     \* its output and the output of applying it again, NoCall before
    \* ---- one call of a function of the library, or of a spider method
    call,       \* the function and its arguments, NoCall before the choice
    ret,        \* the outcome of the call, NoCall before it
    \* ---- a marathon object
    obj         \* the object's attributes, NoCall before construction

vars == <<gen, pages, flat_list, res, caller, retval, fetch, feed,
          marathon, table, out, ac_fn, ac_in, ac_out, call, ret, obj>>

urlVars   == <<gen, pages, flat_list, res>>
crawlVars == <<caller, retval, fetch, feed>>
cleanVars == <<marathon, table, out>>
ageVars   == <<ac_fn, ac_in, ac_out>>
callVars  == <<call, ret, obj>>

\* Values are tagged records, so that values of different Python types compare.
Null     == [t |-> "null"]              \* Python None / pandas NA
StrV(cs) == [t |-> "str", s |-> cs]     \* a string, as its list of characters
IntV(n)  == [t |-> "int", n |-> n]      \* an integer
IsNull(v) == v.t = "null"
NoCall   == [kind |-> "none"]           \* no call made yet

UrlIdle   == gen = "base" /\ pages = <<>> /\ flat_list = FALSE /\ res = NoCall
CrawlIdle == caller = "idle" /\ retval = "unset" /\ fetch = <<>> /\ feed = <<>>
CleanIdle == marathon = "London" /\ table = <<>> /\ out = NoCall
AgeIdle   == ac_fn = "london" /\ ac_in = Null /\ ac_out = NoCall
CallIdle  == call = NoCall /\ ret = NoCall /\ obj = NoCall

(***************************************************************************)
(* Bounds of the model.                                                    *)
(***************************************************************************)
MaxPages    == 3   \* largest page count in a `pages` list
MaxPagesLen == 3   \* longest `pages` list
MaxUrls     == 3   \* most urls handed to run_spider

Max(a, b) == IF a > b THEN a ELSE b
Min(a, b) == IF a < b THEN a ELSE b

(***************************************************************************)
(* URL generator                                                           *)
(***************************************************************************)

\* Decimal page-count strings and Python's int() on them.
DecStr == <<"0", "1", "2", "3", "4", "5", "6", "7", "8", "9">>
IsDec(s) == \E i \in 1..Len(DecStr) : DecStr[i] = s
IntOf(s) == (CHOOSE i \in 1..Len(DecStr) : DecStr[i] = s) - 1

\* The strings a `pages` list is drawn from: "0".."MaxPages" and one string
\* that is not a number.
PageStrs == {DecStr[i + 1] : i \in 0..MaxPages} \cup {"x"}

RECURSIVE SeqsUpTo(_, _)
SeqsUpTo(S, n) ==
    IF n = 0 THEN {<<>>}
    ELSE LET shorter == SeqsUpTo(S, n - 1)
         IN  shorter \cup {Append(s, x) : s \in {t \in shorter : Len(t) = n - 1}, x \in S}

PagesLists == SeqsUpTo(PageStrs, MaxPagesLen)

\* Arguments the model fixes: the year, the default gender list and page size,
\* the marathon object's templates and event id.
Year        == "2019"
Gender      == <<"M", "W">>
NumResults  == "25"
UrlTemplate == "results/{0}/?page={1}&sex={2}&num_results={3}"
ChicagoTemplate == "results/{0}/?page={1}&sex={2}&num_results={3}&event={4}"
EventId     == "MAR"

\* str.format: the template with its positional slots filled.
Format(template, args) == [template |-> template, slots |-> args]

Raise(exc, msg) == [kind |-> "raise", exc |-> exc, msg |-> msg]
Return(v)       == [kind |-> "return", value |-> v]

\* len(pages) != 2
BadPagesLenLt(ps) == Len(ps) < 2
BadPagesLen(ps) == Len(ps) # 2

\* max_pages = max(men_pages, women_pages)
MaxPagesOfMin(men, women) == Min(men, women)
MaxPagesOf(men, women) == Max(men, women)

\* range(1, max_pages + 1)
PageRangeFromZero(max_pages) == 0..max_pages
PageRange(max_pages) == 1..max_pages

\* str(page)
StrOfInt(n) == IF n \in 0..(Len(DecStr) - 1) THEN DecStr[n + 1] ELSE "?"

\* One rendered result URL.
BaseUrl(page, g)    == Format(UrlTemplate, <<Year, StrOfInt(page), g, NumResults>>)
ChicagoUrl(page, g) == Format(ChicagoTemplate, <<Year, StrOfInt(page), g, NumResults, EventId>>)
RenderUrl(which, page, g) == IF which = "chicago" THEN ChicagoUrl(page, g) ELSE BaseUrl(page, g)

\* The for loop over the pages of `rng`, in ascending order: res_urls after it.
RECURSIVE UrlLoop(_, _, _, _, _)
UrlLoop(which, rng, men_pages, women_pages, res_urls) ==
    IF rng = {} THEN res_urls
    ELSE
        LET page  == CHOOSE p \in rng : \A q \in rng : p <= q
            men   == IF page <= men_pages
                     THEN Append(res_urls[1], RenderUrl(which, page, Gender[1]))
                     ELSE res_urls[1]
            women == IF page <= women_pages
                     THEN Append(res_urls[2], RenderUrl(which, page, Gender[2]))
                     ELSE res_urls[2]
        IN  UrlLoop(which, rng \ {page}, men_pages, women_pages, <<men, women>>)

\* list(chain(*res_urls))
Chain(res_urls) == res_urls[1] \o res_urls[2]

\* prepare_res_urls, base generator and Chicago generator (which differ in the
\* template and its event-id slot only).
PrepareResUrls(which, ps, flat) ==
    IF BadPagesLen(ps) THEN
        Raise("Exception", "pages should contains exactly 2 elements")
    ELSE IF ~IsDec(ps[1]) \/ ~IsDec(ps[2]) THEN
        Raise("ValueError", "invalid literal for int()")
    ELSE
        LET men_pages   == IntOf(ps[1])
            women_pages == IntOf(ps[2])
            max_pages   == MaxPagesOf(men_pages, women_pages)
            res_urls    == UrlLoop(which, PageRange(max_pages), men_pages, women_pages, <<<<>>, <<>>>>)
        IN  IF flat THEN Return(Chain(res_urls)) ELSE Return(res_urls)

UrlInit ==
    /\ gen \in {"base", "chicago"}
    /\ pages \in PagesLists
    /\ flat_list \in BOOLEAN
    /\ res = NoCall
    /\ CrawlIdle /\ CleanIdle /\ AgeIdle /\ CallIdle

\* MarathonBase.prepare_res_urls (through a subclass's super() call)
BasePrepareResUrls ==
    /\ gen = "base" /\ res = NoCall
    /\ res' = PrepareResUrls("base", pages, flat_list)
    /\ UNCHANGED <<gen, pages, flat_list, crawlVars, cleanVars, ageVars, callVars>>

\* ChicagoMarathon.prepare_res_urls
ChicagoPrepareResUrls ==
    /\ gen = "chicago" /\ res = NoCall
    /\ res' = PrepareResUrls("chicago", pages, flat_list)
    /\ UNCHANGED <<gen, pages, flat_list, crawlVars, cleanVars, ageVars, callVars>>

UrlNext == BasePrepareResUrls \/ ChicagoPrepareResUrls

SpecUrl == UrlInit /\ [][UrlNext]_vars

Called == res.kind # "none"
WellFormedPages == Len(pages) = 2 /\ IsDec(pages[1]) /\ IsDec(pages[2])

\* What the URL of page i for gender code g has to be, read off the template.
ExpectedUrl(i, g) ==
    IF gen = "chicago"
    THEN [template |-> ChicagoTemplate, slots |-> <<Year, DecStr[i + 1], g, NumResults, EventId>>]
    ELSE [template |-> UrlTemplate, slots |-> <<Year, DecStr[i + 1], g, NumResults>>]

\* C2: for all page counts men_pages, women_pages >= 0 the call returns, with
\* flat_list, exactly men_pages + women_pages URLs: the men URLs of pages
\* 1..men_pages in ascending order followed by the women URLs of pages
\* 1..women_pages in ascending order; without flat_list it returns the same two
\* sequences as a (men, women) pair.
C2_MenThenWomen ==
    (Called /\ WellFormedPages) =>
        LET m == IntOf(pages[1])
            w == IntOf(pages[2])
        IN  /\ res.kind = "return"
            /\ IF flat_list
               THEN /\ Len(res.value) = m + w
                    /\ res.value = [i \in 1..(m + w) |->
                                      IF i <= m THEN ExpectedUrl(i, "M")
                                                ELSE ExpectedUrl(i - m, "W")]
               ELSE res.value = << [i \in 1..m |-> ExpectedUrl(i, "M")],
                                   [i \in 1..w |-> ExpectedUrl(i, "W")] >>

C2_Witness ==
    /\ res.kind = "return" /\ flat_list
    /\ pages = <<"2", "3">> /\ Len(res.value) = 5

\* C3: a call whose pages list does not have exactly 2 elements fails with the
\* invalid-argument exception (Python: Exception with the "exactly 2 elements"
\* message) and returns no URLs, in the base and in the Chicago generator.
C3_BadLengthRaises ==
    (Called /\ Len(pages) # 2) =>
        /\ res.kind = "raise"
        /\ res.exc = "Exception"
        /\ res.msg = "pages should contains exactly 2 elements"
        /\ "value" \notin DOMAIN res

C3_Witness == res.kind = "raise" /\ Len(pages) = 3 /\ gen = "chicago"

\* C4 as claimed: with pages = ["0", "0"] the call produces an empty list, in
\* its default form (flat_list = False) as well as with flat_list = True.
C4_AsClaimed ==
    (Called /\ pages = <<"0", "0">>) => (res.kind = "return" /\ res.value = <<>>)

\* C4 as amended: with pages = ["0", "0"] the call produces an empty list when
\* flat_list = True, and a list of two empty lists (no URL in either) in its
\* default form.
C4_ZeroPages ==
    (Called /\ pages = <<"0", "0">>) =>
        /\ res.kind = "return"
        /\ IF flat_list THEN res.value = <<>> ELSE res.value = << <<>>, <<>> >>

C4_Witness == Called /\ pages = <<"0", "0">> /\ ~flat_list /\ Len(res.value) = 2

(***************************************************************************)
(* Crawl wrapper: run_spider under crochet's @wait_for(10)                 *)
(***************************************************************************)

\* What the body of run_spider hands back to the wait_for wrapper. The body
\* calls crawler_run.crawl(...), which gives a Deferred that fires when the
\* crawl is over, and ends without a return statement: the wrapper gets None.
RunSpiderBody == "None"

FetchOver(i) == fetch[i] \in {"done", "failed"}
CrawlOver    == \A i \in DOMAIN fetch : FetchOver(i)

CrawlInit ==
    /\ caller = "idle" /\ retval = "unset" /\ fetch = <<>> /\ feed = <<>>
    /\ UrlIdle /\ CleanIdle /\ AgeIdle /\ CallIdle

\* The caller calls run_spider(spider, urls, settings): the wrapper runs the
\* body in the reactor thread (CrawlerRunner(settings); crawl(spider, urls=urls)
\* schedules one request per url) and the caller blocks in wait().
RunSpider(n) ==
    /\ caller = "idle"
    /\ caller' = "blocked"
    /\ retval' = RunSpiderBody
    /\ fetch' = [i \in 1..n |-> "queued"]
    /\ UNCHANGED <<feed, urlVars, cleanVars, ageVars, callVars>>

\* wait_for: the caller resumes once the body's result is there; a Deferred
\* result is there only when it has fired, any other value at once.
WaitForReturns ==
    /\ caller = "blocked"
    /\ \/ retval = "None"
       \/ retval = "Deferred" /\ CrawlOver
    /\ caller' = "returned"
    /\ UNCHANGED <<retval, fetch, feed, urlVars, cleanVars, ageVars, callVars>>

\* The engine sends the request of url i.
Download(i) ==
    /\ fetch[i] = "queued"
    /\ fetch' = [fetch EXCEPT ![i] = "inflight"]
    /\ UNCHANGED <<caller, retval, feed, urlVars, cleanVars, ageVars, callVars>>

\* The response of url i arrives: its callback runs and its item goes to the feed.
PageCallback(i) ==
    /\ fetch[i] = "inflight"
    /\ fetch' = [fetch EXCEPT ![i] = "done"]
    /\ feed' = Append(feed, i)
    /\ UNCHANGED <<caller, retval, urlVars, cleanVars, ageVars, callVars>>

\* The request of url i fails: it is logged, nothing reaches the feed.
FetchFailed(i) ==
    /\ fetch[i] = "inflight"
    /\ fetch' = [fetch EXCEPT ![i] = "failed"]
    /\ UNCHANGED <<caller, retval, feed, urlVars, cleanVars, ageVars, callVars>>

CrawlNext ==
    \/ \E n \in 0..MaxUrls : RunSpider(n)
    \/ WaitForReturns
    \/ \E i \in DOMAIN fetch : Download(i)
    \/ \E i \in DOMAIN fetch : PageCallback(i)
    \/ \E i \in DOMAIN fetch : FetchFailed(i)

SpecCrawl == CrawlInit /\ [][CrawlNext]_vars

\* C1: run_spider returns control to its caller only after the crawl has run to
\* completion: once the caller has resumed, every page fetch of the crawl has
\* completed or failed.
C1_ReturnsAfterCrawl == (caller = "returned") => CrawlOver

(***************************************************************************)
(* Age-category canonicalization                                           *)
(***************************************************************************)
MaxCatLen == 4    \* longest generated raw category string
MaxAge    == 72   \* largest age handed to get_age_cat

\* The canonical age categories (valid_df), as character lists.
AC_18_39 == <<"1", "8", "-", "3", "9">>
AC_40_44 == <<"4", "0", "-", "4", "4">>
AC_45_49 == <<"4", "5", "-", "4", "9">>
AC_50_54 == <<"5", "0", "-", "5", "4">>
AC_55_59 == <<"5", "5", "-", "5", "9">>
AC_60_64 == <<"6", "0", "-", "6", "4">>
AC_65_69 == <<"6", "5", "-", "6", "9">>
AC_70plus == <<"7", "0", "+">>
CanonicalAgeCats == {AC_18_39, AC_40_44, AC_45_49, AC_50_54, AC_55_59, AC_60_64, AC_65_69, AC_70plus}

Digits    == {DecStr[i] : i \in 1..Len(DecStr)}
UpperCase == {"A", "B", "C", "D", "E", "F", "G", "H", "I", "J", "K", "L", "M",
              "N", "O", "P", "Q", "R", "S", "T", "U", "V", "W", "X", "Y", "Z"}
LowerCase == {"a", "b", "c", "d", "e", "f", "g", "h", "i", "j", "k", "l", "m",
              "n", "o", "p", "q", "r", "s", "t", "u", "v", "w", "x", "y", "z"}
IsDigit(c) == c \in Digits                                   \* \d
IsWordChar(c) == c \in Digits \cup UpperCase \cup LowerCase \cup {"_"}   \* \w
IsSpace(c) == c \in {" ", "\t", "\n"}                        \* \s

\* re.search(r"(?<= |\w)\d{2}(?= |:)|(?<=H)\s(?=1)", key) at position i:
\* the text matched there, <<>> for no match (either branch matches 1 or 2
\* characters).
HamMatchAt(key, i) ==
    IF /\ i >= 2 /\ i + 2 <= Len(key)
       /\ IsDigit(key[i]) /\ IsDigit(key[i + 1])
       /\ (key[i - 1] = " " \/ IsWordChar(key[i - 1]))
       /\ key[i + 2] \in {" ", ":"}
    THEN <<key[i], key[i + 1]>>
    ELSE IF /\ i >= 2 /\ i + 1 <= Len(key)
            /\ IsSpace(key[i]) /\ key[i - 1] = "H" /\ key[i + 1] = "1"
         THEN <<key[i]>>
         ELSE <<>>

\* The leftmost match, or the key itself when nothing matches (first loop of
\* get_ham_age_cat_dict).
HamExtract(key) ==
    LET hits == {i \in 1..Len(key) : HamMatchAt(key, i) # <<>>}
    IN  IF hits = {} THEN key
        ELSE HamMatchAt(key, CHOOSE i \in hits : \A j \in hits : i <= j)

\* The match statement of get_ham_age_cat_dict (second loop).
HamStandard(value) ==
    CASE value \in {<<" ">>, <<"2", "0">>, <<"U", "2", "0">>, <<"3", "0">>,
                    <<"3", "5">>, <<"J", "A">>} -> AC_18_39
      [] value = <<"4", "0">> -> AC_40_44
      [] value = <<"4", "5">> -> AC_45_49
      [] value = <<"5", "0">> -> AC_50_54
      [] value = <<"5", "5">> -> AC_55_59
      [] value = <<"6", "0">> -> AC_60_64
      [] value = <<"6", "5">> -> AC_65_69
      [] value \in {<<"7", "0">>, <<"7", "5">>, <<"8", "0">>, <<"8", "5">>} -> AC_70plus
      [] OTHER -> value

\* get_ham_age_cat_dict(df)[key]: the replacement of one raw Hamburg category.
HamAgeCat(key) == HamStandard(HamExtract(key))

\* calc_age with every year of birth taken in the 1900s
CalcAgeLastCentury(yob, cur_year) == cur_year - (yob + 1900)

\* calc_age(yob, cur_year)
CalcAge(yob, cur_year) ==
    LET full_yob == IF 0 <= yob /\ yob <= cur_year % 100 THEN yob + 2000 ELSE yob + 1900
    IN  cur_year - full_yob

\* get_age_cat(age). A string argument makes the first comparison
\* (18 <= age) raise TypeError; a missing age (NaN) fails every comparison and
\* is returned by the else branch.
TypeError == [t |-> "TypeError"]
GetAgeCatFrom19(age) ==
    IF age.t = "null" THEN age
    ELSE IF age.t # "int" THEN TypeError
    ELSE IF 19 <= age.n /\ age.n <= 39 THEN StrV(AC_18_39)
    ELSE IF 40 <= age.n /\ age.n <= 44 THEN StrV(AC_40_44)
    ELSE IF 45 <= age.n /\ age.n <= 49 THEN StrV(AC_45_49)
    ELSE IF 50 <= age.n /\ age.n <= 54 THEN StrV(AC_50_54)
    ELSE IF 55 <= age.n /\ age.n <= 59 THEN StrV(AC_55_59)
    ELSE IF 60 <= age.n /\ age.n <= 64 THEN StrV(AC_60_64)
    ELSE IF 65 <= age.n /\ age.n <= 69 THEN StrV(AC_65_69)
    ELSE IF age.n >= 70 THEN StrV(AC_70plus)
    ELSE age
GetAgeCat(age) ==
    IF age.t = "null" THEN age
    ELSE IF age.t # "int" THEN TypeError
    ELSE IF 18 <= age.n /\ age.n <= 39 THEN StrV(AC_18_39)
    ELSE IF 40 <= age.n /\ age.n <= 44 THEN StrV(AC_40_44)
    ELSE IF 45 <= age.n /\ age.n <= 49 THEN StrV(AC_45_49)
    ELSE IF 50 <= age.n /\ age.n <= 54 THEN StrV(AC_50_54)
    ELSE IF 55 <= age.n /\ age.n <= 59 THEN StrV(AC_55_59)
    ELSE IF 60 <= age.n /\ age.n <= 64 THEN StrV(AC_60_64)
    ELSE IF 65 <= age.n /\ age.n <= 69 THEN StrV(AC_65_69)
    ELSE IF age.n >= 70 THEN StrV(AC_70plus)
    ELSE age

\* The literal category merges of the other cleaners.
LondonOver70  == {<<"7", "0", "-", "7", "4">>, <<"7", "5", "-", "7", "9">>, <<"8", "0", "-", "8", "4">>, <<"8", "0", "+">>, <<"8", "5", "+">>}
BostonOver70  == {<<"7", "0", "-", "7", "4">>, <<"7", "5", "-", "7", "9">>, <<"8", "0", "+">>}
Under40       == {<<"2", "0", "-", "2", "4">>, <<"2", "5", "-", "2", "9">>, <<"3", "0", "-", "3", "4">>, <<"3", "5", "-", "3", "9">>}
ChicagoInvalid == {<<"W", "-", "1", "5">>, <<"M", "-", "1", "5">>, <<"1", "9", " ", "a", "n", "d", " ", "u", "n", "d", "e", "r">>}
HoustonInvalid == {<<"1", "2", "-", "1", "5">>, <<"1", "6", "-", "1", "9">>, <<"E", "l", "i", "t", "e", "s">>}

\* df["age_cat"].replace([...], "70+") and .replace([...], "18-39")
LondonMerge(cat)  == IF cat \in LondonOver70 THEN AC_70plus ELSE cat
BostonMerge(cat)  == IF cat \in BostonOver70 THEN AC_70plus ELSE cat
ChicagoMerge(cat) == IF cat \in Under40 THEN AC_18_39
                     ELSE IF cat \in BostonOver70 THEN AC_70plus ELSE cat
HoustonMerge(cat) == ChicagoMerge(cat)
\* Raw categories the model feeds: those the sources are known to use and, for
\* the Hamburg lookup (which parses its keys), every string of at most
\* MaxCatLen characters over CatAlphabet.
KnownRawCats == {
    <<"1", "8", "-", "3", "9">>,
    <<"4", "0", "-", "4", "4">>,
    <<"4", "5", "-", "4", "9">>,
    <<"5", "0", "-", "5", "4">>,
    <<"5", "5", "-", "5", "9">>,
    <<"6", "0", "-", "6", "4">>,
    <<"6", "5", "-", "6", "9">>,
    <<"7", "0", "+">>,
    <<"7", "0", "-", "7", "4">>,
    <<"7", "5", "-", "7", "9">>,
    <<"8", "0", "-", "8", "4">>,
    <<"8", "0", "+">>,
    <<"8", "5", "+">>,
    <<"2", "0", "-", "2", "4">>,
    <<"2", "5", "-", "2", "9">>,
    <<"3", "0", "-", "3", "4">>,
    <<"3", "5", "-", "3", "9">>,
    <<"W", "-", "1", "5">>,
    <<"M", "-", "1", "5">>,
    <<"1", "9", " ", "a", "n", "d", " ", "u", "n", "d", "e", "r">>,
    <<"1", "2", "-", "1", "5">>,
    <<"1", "6", "-", "1", "9">>,
    <<"E", "l", "i", "t", "e", "s">>,
    <<"M", " ", "4", "0", " ", ":">>,
    <<"W", " ", "7", "5", " ", ":">>,
    <<"M", "H", " ", "1">>,
    <<"J", "A">>,
    <<"U", "2", "0">>,
    <<"M", " ", "9", "0", " ", ":">>,
    <<"3", "5">>,
    <<"8", "5">>}
CatAlphabet == {"H", " ", ":", "1", "4", "0"}
RawCats == KnownRawCats \cup SeqsUpTo(CatAlphabet, MaxCatLen)

Dropped == [t |-> "dropped"]    \* the row was removed from the table

\* One application of a cleaner's canonicalization to a cell.
Canon(fn, v) ==
    IF v.t \in {"dropped", "TypeError"} THEN v
    ELSE CASE fn = "hamburg"     -> StrV(HamAgeCat(v.s))
           [] fn = "get_age_cat" -> GetAgeCat(v)
           [] fn = "london"      -> StrV(LondonMerge(v.s))
           [] fn = "boston"      -> StrV(BostonMerge(v.s))
           [] fn = "chicago"     -> IF v.s \in ChicagoInvalid THEN Dropped
                                    ELSE StrV(ChicagoMerge(v.s))
           [] fn = "houston"     -> IF v.s \in HoustonInvalid THEN Dropped
                                    ELSE StrV(HoustonMerge(v.s))

AgeFns == {"hamburg", "get_age_cat", "london", "boston", "chicago", "houston"}

AgeInit ==
    /\ ac_fn \in AgeFns
    /\ ac_in \in CASE ac_fn = "get_age_cat" -> {IntV(a) : a \in 0..MaxAge}
                   [] ac_fn = "hamburg" -> {StrV(c) : c \in RawCats}
                   [] OTHER -> {StrV(c) : c \in KnownRawCats}
    /\ ac_out = NoCall
    /\ UrlIdle /\ CrawlIdle /\ CleanIdle /\ CallIdle

\* Apply the canonicalization of `fn` to the input, and once more to its output.
Canonicalize(fn) ==
    /\ ac_out' = [kind |-> "done", once |-> Canon(fn, ac_in),
                  twice |-> Canon(fn, Canon(fn, ac_in))]
    /\ UNCHANGED <<ac_fn, ac_in, urlVars, crawlVars, cleanVars, callVars>>

HamburgAgeCat == ac_fn = "hamburg" /\ ac_out = NoCall /\ Canonicalize("hamburg")
AgeCatOfAge   == ac_fn = "get_age_cat" /\ ac_out = NoCall /\ Canonicalize("get_age_cat")
LondonAgeCat  == ac_fn = "london" /\ ac_out = NoCall /\ Canonicalize("london")
BostonAgeCat  == ac_fn = "boston" /\ ac_out = NoCall /\ Canonicalize("boston")
ChicagoAgeCat == ac_fn = "chicago" /\ ac_out = NoCall /\ Canonicalize("chicago")
HoustonAgeCat == ac_fn = "houston" /\ ac_out = NoCall /\ Canonicalize("houston")

AgeNext ==
    \/ HamburgAgeCat \/ AgeCatOfAge \/ LondonAgeCat
    \/ BostonAgeCat \/ ChicagoAgeCat \/ HoustonAgeCat

SpecAge == AgeInit /\ [][AgeNext]_vars

IsCanonical(v) == v.t = "str" /\ v.s \in CanonicalAgeCats
AgeDone == ac_out.kind = "done"

HamRecognised == {<<" ">>, <<"2", "0">>, <<"U", "2", "0">>, <<"3", "0">>, <<"3", "5">>, <<"J", "A">>, <<"4", "0">>, <<"4", "5">>, <<"5", "0">>, <<"5", "5">>, <<"6", "0">>, <<"6", "5">>, <<"7", "0">>, <<"7", "5">>, <<"8", "0">>, <<"8", "5">>}

\* The canonical bucket an adult age belongs to, as a table of lower bounds.
BucketFrom == <<18, 40, 45, 50, 55, 60, 65, 70>>
BucketName == <<AC_18_39, AC_40_44, AC_45_49, AC_50_54, AC_55_59, AC_60_64, AC_65_69, AC_70plus>>
BucketOf(a) == BucketName[CHOOSE i \in 1..8 : BucketFrom[i] <= a /\ (i = 8 \/ a < BucketFrom[i + 1])]

MaxRows == 2      \* most rows of a raw table

\* Strings of the tables, as character lists.
S_Finished == <<"F", "i", "n", "i", "s", "h", "e", "d">>
S_Started == <<"S", "t", "a", "r", "t", "e", "d">>
S_NotStarted == <<"N", "o", "t", " ", "S", "t", "a", "r", "t", "e", "d">>
S_finished == <<"f", "i", "n", "i", "s", "h", "e", "d">>
S_started == <<"s", "t", "a", "r", "t", "e", "d">>
S_not_started == <<"n", "o", "t", " ", "s", "t", "a", "r", "t", "e", "d">>
S_DNF == <<"D", "N", "F">>
S_DQ_Over6h == <<"D", "Q", " ", "-", " ", "O", "v", "e", "r", " ", "6", "h">>
S_DQ_Switch == <<"D", "Q", " ", "-", " ", "S", "W", "I", "T", "C", "H", " ", "f", "r", "o", "m", " ", "H", "A", "L", "F", " ", "t", "o", " ", "M", "A", "R", "A">>
S_DQ_MissingSplit == <<"D", "Q", " ", "-", " ", "m", "i", "s", "s", "i", "n", "g", " ", "s", "p", "l", "i", "t">>
S_DQ_NoReason == <<"D", "Q", " ", "-", " ", "N", "o", " ", "R", "e", "a", "s", "o", "n", " ", "W", "a", "s", " ", "G", "i", "v", "e", "n">>
S_DNS == <<"D", "N", "S", " ", "-", " ", " ", "D", "i", "d", " ", "N", "o", "t", " ", "S", "t", "a", "r", "t">>
S_Other == <<"O", "t", "h", "e", "r">>
S_M == <<"M">>
S_W == <<"W">>
S_Dash == <<"-">>
K_5 == <<"k", "_", "5">>
K_20 == <<"k", "_", "2", "0">>
K_finish == <<"k", "_", "f", "i", "n", "i", "s", "h">>
S_5K == <<"5", "K">>
S_20K == <<"2", "0", "K">>
S_Finish == <<"F", "i", "n", "i", "s", "h">>
S_time == <<"_", "t", "i", "m", "e">>
T_1 == <<"0", "0", ":", "2", "5", ":", "0", "0">>
T_2 == <<"0", "1", ":", "4", "0", ":", "0", "0">>
T_3 == <<"0", "3", ":", "3", "0", ":", "0", "0">>
P_mmss == <<"0", "5", ":", "0", "0">>
V_12 == <<"1", "2", ".", "0", "0">>
V_fast == <<"2", "3", ".", "5", "0">>

FloatV(h) == [t |-> "float", h |-> h]   \* a float, in hundredths

\* The splits_keys argument: the split columns of the table, in course order.
\* A row holds, per key, the three cells k_<x>_time, k_<x>_pace, k_<x>_speed.
SplitsKeys == <<K_5, K_20, K_finish>>
TimeCol(key) == key \o S_time              \* f"{key}_time"

\* The last_split_std argument: column label -> standard checkpoint name.
LastSplitStdSame(label) == label
LastSplitStd(label) ==
    CASE label = TimeCol(K_5)      -> S_5K
      [] label = TimeCol(K_20)     -> S_20K
      [] label = TimeCol(K_finish) -> S_Finish
      [] OTHER -> label

\* The year argument of stockholm_cleaner.
StockholmYear == 2019      \* a year of the dataset

NotNull(v) == v.t # "null"

\* ---- cell conversions

\* regex "('-'|'+|-| )" found in the string: the cell holds a hyphen, an
\* apostrophe or a space somewhere.
HasPlaceholder(cs) == \E i \in 1..Len(cs) : cs[i] \in {"-", "'", " "}

\* DataFrame.replace(to_replace=regex_pattern, value=None, regex=True) on one
\* cell: a string in which the pattern is found becomes null as a whole.
ReplaceValue(c) == IF c.t = "str" /\ HasPlaceholder(c.s) THEN Null ELSE c

\* The fields of a character list split on a separator.
RECURSIVE SplitOn(_, _)
SplitOn(cs, sep) ==
    LET hits == {i \in 1..Len(cs) : cs[i] = sep}
    IN  IF hits = {} THEN <<cs>>
        ELSE LET i == CHOOSE h \in hits : \A j \in hits : h <= j
             IN  <<SubSeq(cs, 1, i - 1)>> \o SplitOn(SubSeq(cs, i + 1, Len(cs)), sep)

IsNumber(cs) == Len(cs) > 0 /\ \A i \in 1..Len(cs) : IsDigit(cs[i])
DigitVal(c) == (CHOOSE i \in 1..Len(DecStr) : DecStr[i] = c) - 1
RECURSIVE NumberOf(_)
NumberOf(cs) ==
    IF Len(cs) = 0 THEN 0
    ELSE 10 * NumberOf(SubSeq(cs, 1, Len(cs) - 1)) + DigitVal(cs[Len(cs)])

\* pd.to_timedelta(col, errors="coerce").astype("timedelta64[s]").dt.seconds on
\* one cell: "hh:mm:ss" gives its seconds within the day, anything that is not
\* hours:minutes:seconds is coerced to null.
TimedeltaSeconds(c) ==
    IF c.t # "str" THEN Null
    ELSE LET f == SplitOn(c.s, ":")
         IN  IF Len(f) = 3 /\ \A i \in 1..3 : IsNumber(f[i])
             THEN IntV((3600 * NumberOf(f[1]) + 60 * NumberOf(f[2]) + NumberOf(f[3])) % 86400)
             ELSE Null

PacePrefixUpTo5(c) ==
    IF c.t = "str" /\ Len(c.s) <= 5 THEN StrV(<<"0", "0", ":">> \o c.s) ELSE c
\* lambda x: "00:" + x if len(x) == 5 else x, on the non-null paces
PacePrefix(c) ==
    IF c.t = "str" /\ Len(c.s) = 5 THEN StrV(<<"0", "0", ":">> \o c.s) ELSE c

\* pd.to_numeric(col, errors="coerce") on one cell, for decimals of at most two
\* places (the sites print speeds with two); anything else is coerced to null.
ToNumeric(c) ==
    IF c.t # "str" THEN c
    ELSE LET f == SplitOn(c.s, ".")
         IN  IF Len(f) = 1 /\ IsNumber(f[1]) THEN FloatV(100 * NumberOf(f[1]))
             ELSE IF Len(f) = 2 /\ IsNumber(f[1]) /\ IsNumber(f[2]) /\ Len(f[2]) <= 2
             THEN FloatV(100 * NumberOf(f[1])
                         + (IF Len(f[2]) = 1 THEN 10 ELSE 1) * NumberOf(f[2]))
             ELSE Null

\* np.round of the quotient a / b (a, b > 0): to the nearest integer, a tie to
\* the even one.
RoundDiv(a, b) ==
    LET q == a \div b
        r == a % b
    IN  IF 2 * r < b THEN q
        ELSE IF 2 * r > b THEN q + 1
        ELSE IF q % 2 = 0 THEN q ELSE q + 1

ConvertPaceFloor(c) ==
    IF c.t = "int" THEN IntV((c.n * 1000) \div 1609)
    ELSE IF c.t = "float" THEN IntV((c.h * 10) \div 1609) ELSE c
\* convert_pace: sec/mile -> sec/km, np.round(mile_pace / 1.609), of a whole
\* pace or of one with decimals (in hundredths)
ConvertPace(c) ==
    IF c.t = "int" THEN IntV(RoundDiv(c.n * 1000, 1609))
    ELSE IF c.t = "float" THEN IntV(RoundDiv(c.h * 10, 1609)) ELSE c
\* convert_speed: miles/h -> km/h, np.round(mile_speed * 1.60934, decimals=2)
ConvertSpeed(c) == IF c.t = "float" THEN FloatV(RoundDiv(c.h * 160934, 100000)) ELSE c

\* ---- table operations (a table is a list of rows; dropping by index label
\* keeps the other rows in order)

Keep(df, Test(_)) == SelectSeq(df, Test)
MapRows(df, F(_)) == [i \in 1..Len(df) |-> F(df[i])]
MapSplits(row, F(_)) == [row EXCEPT !.sp = [i \in DOMAIN row.sp |-> F(row.sp[i])]]

\* replace_value_in_cols: on every column whose name starts with "k_"
ReplaceValueInCols(df) ==
    MapRows(df, LAMBDA row : MapSplits(row, LAMBDA c :
        [time |-> ReplaceValue(c.time), pace |-> ReplaceValue(c.pace),
         speed |-> ReplaceValue(c.speed)]))

\* df.iloc[:, df.columns.str.startswith("k_")].isna().values.all(axis=1)
AllSplitsNull(row) ==
    \A i \in DOMAIN row.sp :
        IsNull(row.sp[i].time) /\ IsNull(row.sp[i].pace) /\ IsNull(row.sp[i].speed)

\* Removing the runners that have no split data at all.
KeepNotStarted(df) == df
DropNotStarted(df) == Keep(df, LAMBDA row : ~AllSplitsNull(row))

\* df.drop(df.loc[df.race_state == state].index)
DropRaceState(df, state) == Keep(df, LAMBDA row : row.race_state # StrV(state))

\* drop_null_by_col
DropNullByCol(df, cols) == Keep(df, LAMBDA row : \A col \in cols : NotNull(row[col]))

\* convert_to_sec, for key in splits_keys
ConvertToSec(df) ==
    MapRows(df, LAMBDA row : MapSplits(row, LAMBDA c :
        [c EXCEPT !.time = TimedeltaSeconds(c.time),
                  !.pace = TimedeltaSeconds(PacePrefix(c.pace))]))

\* convert_split_dtype: time and pace to Int32, speed through pd.to_numeric
ConvertSplitDtype(df) ==
    MapRows(df, LAMBDA row : MapSplits(row, LAMBDA c :
        [c EXCEPT !.speed = ToNumeric(c.speed)]))

\* convert_pace_and_speed
ConvertPaceAndSpeed(df) ==
    MapRows(df, LAMBDA row : MapSplits(row, LAMBDA c :
        [c EXCEPT !.pace = ConvertPace(c.pace), !.speed = ConvertSpeed(c.speed)]))

\* The same test without the `continue` on the skipped splits
HasTimeOnlySplitAnywhere(row, skip_splits) ==
    \E i \in DOMAIN row.sp :
        NotNull(row.sp[i].time) /\ IsNull(row.sp[i].pace) /\ IsNull(row.sp[i].speed)

\* get_indices_of_rows_with_only_time: a split, not skipped, with a time and
\* neither pace nor speed
HasTimeOnlySplit(row, skip_splits) ==
    \E i \in DOMAIN row.sp :
        /\ SplitsKeys[i] \notin skip_splits
        /\ NotNull(row.sp[i].time) /\ IsNull(row.sp[i].pace) /\ IsNull(row.sp[i].speed)

\* drop_rows_with_time_only_splits
DropRowsWithTimeOnlySplits(df, skip_splits) ==
    Keep(df, LAMBDA row : ~HasTimeOnlySplit(row, skip_splits))

\* The filter with >= in place of >
DropRowsWithSplitsSpeedAtLeast(df) ==
    Keep(df, LAMBDA row :
        ~\E i \in DOMAIN row.sp : row.sp[i].speed.t = "float" /\ row.sp[i].speed.h >= 2200)

\* drop_rows_with_splits_speed_above(df, 22.0): the speed columns are every
\* third column from k_5_speed on in the cols_order the cleaners are given.
SpeedLimit == 2200
DropRowsWithSplitsSpeedAbove(df) ==
    Keep(df, LAMBDA row :
        ~\E i \in DOMAIN row.sp : row.sp[i].speed.t = "float" /\ row.sp[i].speed.h > SpeedLimit)

\* df.iloc[:, df.columns.str.contains("time")].idxmax(axis=1) on one row: the
\* label of the first time column holding the row's largest time, null for a
\* row without any time.
TimedIdx(row) == {i \in DOMAIN row.sp : row.sp[i].time.t = "int"}
IdxFurthest(row) ==
    IF TimedIdx(row) = {} THEN Null
    ELSE StrV(TimeCol(SplitsKeys[CHOOSE i \in TimedIdx(row) : \A j \in TimedIdx(row) : j <= i]))
IdxMax(row) ==
    IF TimedIdx(row) = {} THEN Null
    ELSE LET best == CHOOSE i \in TimedIdx(row) :
                        /\ \A j \in TimedIdx(row) : row.sp[j].time.n <= row.sp[i].time.n
                        /\ \A j \in TimedIdx(row) :
                              row.sp[j].time.n = row.sp[i].time.n => i <= j
         IN  StrV(TimeCol(SplitsKeys[best]))

\* df["last_split"] = ...idxmax(axis=1)
AddLastSplit(df) == MapRows(df, LAMBDA row : [row EXCEPT !.last_split = IdxMax(row)])

\* df["race_state"] = np.where(df["last_split"] == "k_finish_time", "Finished", "Started")
RaceStateStarted(last_split) == StrV(S_Started)
RaceStateOf(last_split) ==
    IF last_split = StrV(TimeCol(K_finish)) THEN StrV(S_Finished) ELSE StrV(S_Started)
AddRaceState(df) ==
    MapRows(df, LAMBDA row : [row EXCEPT !.race_state = RaceStateOf(row.last_split)])

\* df["last_split"] = df["last_split"].replace(last_split_std)
StandardLastSplit(df) ==
    MapRows(df, LAMBDA row :
        [row EXCEPT !.last_split =
            IF row.last_split.t = "str" THEN StrV(LastSplitStd(row.last_split.s))
            ELSE row.last_split])

\* df["age_cat"].replace([...], ...), through a cleaner's merge
MergeAgeCat(df, Merge(_)) ==
    MapRows(df, LAMBDA row :
        [row EXCEPT !.age_cat = IF row.age_cat.t = "str" THEN StrV(Merge(row.age_cat.s))
                                ELSE row.age_cat])

\* df.drop(df[df[col].isin(values)].index)
DropIsIn(df, col, values) ==
    Keep(df, LAMBDA row : ~(row[col].t = "str" /\ row[col].s \in values))

\* Raw age categories of the tables.
AC_75_79 == <<"7", "5", "-", "7", "9">>
AC_35_39 == <<"3", "5", "-", "3", "9">>
AC_U18 == <<"U", "1", "8">>
HAM_M40 == <<"M", " ", "4", "0", " ", ":">>
HAM_W75 == <<"W", " ", "7", "5", " ", ":">>
HAM_MH == <<"M", "H", " ", "1">>
HAM_M90 == <<"M", " ", "9", "0", " ", ":">>
AC_W15 == <<"W", "-", "1", "5">>
AC_Elites == <<"E", "l", "i", "t", "e", "s">>

\* str.capitalize()
LowerSeq == <<"a", "b", "c", "d", "e", "f", "g", "h", "i", "j", "k", "l", "m",
              "n", "o", "p", "q", "r", "s", "t", "u", "v", "w", "x", "y", "z">>
UpperSeq == <<"A", "B", "C", "D", "E", "F", "G", "H", "I", "J", "K", "L", "M",
              "N", "O", "P", "Q", "R", "S", "T", "U", "V", "W", "X", "Y", "Z">>
ToUpper(c) == IF c \in LowerCase THEN UpperSeq[CHOOSE i \in 1..26 : LowerSeq[i] = c] ELSE c
ToLower(c) == IF c \in UpperCase THEN LowerSeq[CHOOSE i \in 1..26 : UpperSeq[i] = c] ELSE c
Capitalize(cs) == [i \in 1..Len(cs) |-> IF i = 1 THEN ToUpper(cs[i]) ELSE ToLower(cs[i])]

\* df.loc[:, "race_state"] = df["race_state"].str.capitalize()
CapitalizeRaceState(df) ==
    MapRows(df, LAMBDA row :
        [row EXCEPT !.race_state = IF row.race_state.t = "str"
                                   THEN StrV(Capitalize(row.race_state.s))
                                   ELSE row.race_state])

\* df["race_state"].replace(["DNF", "DQ - Over 6h", "DQ - missing split"], "Started")
HoustonInvalidStates == {S_Other, S_DQ_NoReason, S_DQ_Switch}
HoustonUnfinished    == {S_DNF, S_DQ_Over6h, S_DQ_MissingSplit}
CollapseRaceState(df) ==
    MapRows(df, LAMBDA row :
        [row EXCEPT !.race_state =
            IF row.race_state.t = "str" /\ row.race_state.s \in HoustonUnfinished
            THEN StrV(S_Started) ELSE row.race_state])

\* ---- the cleaners, step by step (the numbers are the steps of the code;
\* dropping unused columns, reordering columns and convert_dtypes() change no
\* value of the columns the model keeps)

london_cleaner(df) ==
    LET d2  == ReplaceValueInCols(df)
        d31 == DropRaceState(d2, S_NotStarted)
        d32 == DropNotStarted(d31)
        d4  == DropRowsWithTimeOnlySplits(d32, {})
        d5  == DropNullByCol(d4, {"age_cat", "gender"})
        d6  == ConvertToSec(d5)
        d7  == ConvertSplitDtype(d6)
        d8  == MergeAgeCat(d7, LondonMerge)
    IN  DropRowsWithSplitsSpeedAbove(d8)

hamburg_cleaner(df) ==
    LET d2  == ReplaceValueInCols(df)
        d3  == DropNotStarted(d2)
        d4  == DropNullByCol(d3, {"age_cat", "gender"})
        d5  == ConvertToSec(d4)
        d6  == ConvertSplitDtype(d5)
        d7  == AddRaceState(AddLastSplit(d6))
        d8  == DropRowsWithTimeOnlySplits(d7, {})
        d9  == StandardLastSplit(MergeAgeCat(d8, HamAgeCat))
    IN  DropRowsWithSplitsSpeedAbove(d9)

stockholm_cleaner(df) ==
    LET d2  == ReplaceValueInCols(df)
        d3  == DropNotStarted(d2)
        d4  == DropNullByCol(d3, {"yob", "gender"})
        d5  == ConvertToSec(d4)
        d6  == ConvertSplitDtype(d5)
        d7  == AddRaceState(AddLastSplit(d6))
        d8  == DropRowsWithTimeOnlySplits(d7, {})
        d91 == MapRows(d8, LAMBDA row :
                   [row EXCEPT !.yob = IF row.yob.t = "int"
                                       THEN IntV(CalcAge(row.yob.n, StockholmYear))
                                       ELSE row.yob])
        d92 == Keep(d91, LAMBDA row : ~(row.yob.t = "int" /\ row.yob.n < 18))
        d93 == MapRows(d92, LAMBDA row : [row EXCEPT !.yob = GetAgeCat(row.yob)])
        d94 == MapRows(d93, LAMBDA row : [row EXCEPT !.age_cat = row.yob, !.yob = Null])
    IN  StandardLastSplit(d94)

boston_cleaner(df) ==
    LET d2  == ReplaceValueInCols(df)
        d31 == DropRaceState(d2, S_not_started)
        d32 == DropNotStarted(d31)
        d4  == DropRowsWithTimeOnlySplits(d32, {})
        d5  == DropNullByCol(d4, {"age_cat", "gender"})
        d6  == CapitalizeRaceState(d5)
        d7  == ConvertToSec(d6)
        d8  == ConvertSplitDtype(d7)
        d9  == ConvertPaceAndSpeed(d8)
    IN  MergeAgeCat(d9, BostonMerge)

chicago_cleaner(df) ==
    LET d2  == ReplaceValueInCols(df)
        d3  == DropNotStarted(d2)
        d4  == DropNullByCol(d3, {"age_cat", "gender"})
        d5  == ConvertToSec(d4)
        d6  == ConvertSplitDtype(d5)
        d7  == AddRaceState(AddLastSplit(d6))
        d8  == DropRowsWithTimeOnlySplits(d7, {})
        d9  == StandardLastSplit(d8)
        d10 == DropIsIn(d9, "age_cat", ChicagoInvalid)
    IN  MergeAgeCat(d10, ChicagoMerge)

houston_cleaner(df) ==
    LET d2  == ReplaceValueInCols(df)
        d3  == DropNotStarted(d2)
        d4  == DropNullByCol(d3, {"age_cat", "gender"})
        d5  == ConvertToSec(d4)
        d6  == ConvertSplitDtype(d5)
        d7  == ConvertPaceAndSpeed(d6)
        d81 == DropIsIn(d7, "age_cat", HoustonInvalid)
        d83 == MergeAgeCat(d81, HoustonMerge)
        d91 == DropIsIn(d83, "race_state", HoustonInvalidStates)
        d92 == CollapseRaceState(d91)
        d10 == DropRowsWithTimeOnlySplits(d92, {K_20})
    IN  StandardLastSplit(AddLastSplit(d10))

Marathons == {"London", "Hamburg", "Stockholm", "Boston", "Chicago", "Houston"}
Cleaner(m, df) ==
    CASE m = "London"    -> london_cleaner(df)
      [] m = "Hamburg"   -> hamburg_cleaner(df)
      [] m = "Stockholm" -> stockholm_cleaner(df)
      [] m = "Boston"    -> boston_cleaner(df)
      [] m = "Chicago"   -> chicago_cleaner(df)
      [] m = "Houston"   -> houston_cleaner(df)

(***************************************************************************)
(* Raw tables handed to the cleaners                                       *)
(***************************************************************************)
Cell(t, p, v) == [time |-> t, pace |-> p, speed |-> v]
Ran(t)       == Cell(StrV(t), StrV(P_mmss), StrV(V_12))    \* a recorded split
Absent       == Cell(Null, Null, Null)                     \* nothing scraped
Estimated    == Cell(StrV(S_Dash), StrV(S_Dash), StrV(S_Dash))  \* "-" placeholders
TimeOnly(t)  == Cell(StrV(t), Null, Null)
PaceOnly     == Cell(Null, StrV(P_mmss), Null)
ShortTime    == Cell(StrV(P_mmss), StrV(P_mmss), StrV(V_12))    \* time as mm:ss
TooFast(t)   == Cell(StrV(t), StrV(P_mmss), StrV(V_fast))

\* The split data of a runner: one cell per key of SplitsKeys.
NoSplits        == <<Absent, Absent, Absent>>
AllEstimated    == <<Estimated, Estimated, Estimated>>
UpTo5k          == <<Ran(T_1), Absent, Absent>>
UpTo20k         == <<Ran(T_1), Ran(T_2), Absent>>
Finisher        == <<Ran(T_1), Ran(T_2), Ran(T_3)>>
FinishTimeOnly  == <<Ran(T_1), Ran(T_2), TimeOnly(T_3)>>
Time20kOnly     == <<Ran(T_1), TimeOnly(T_2), Ran(T_3)>>
Gap20k          == <<Ran(T_1), Estimated, Ran(T_3)>>
NotIncreasing   == <<Ran(T_3), Ran(T_2), Absent>>
FinishNotMax    == <<Ran(T_3), Ran(T_1), Ran(T_2)>>
FinishTied      == <<Ran(T_1), Ran(T_2), Ran(T_2)>>
OnlyPace        == <<PaceOnly, Absent, Absent>>
UnparsedTime    == <<ShortTime, Absent, Absent>>
FastSplit       == <<TooFast(T_1), Ran(T_2), Ran(T_3)>>
SplitProfiles == {NoSplits, AllEstimated, UpTo5k, UpTo20k, Finisher, FinishTimeOnly,
                  Time20kOnly, Gap20k, NotIncreasing, FinishNotMax, FinishTied,
                  OnlyPace, UnparsedTime, FastSplit}

RawRow(ac, g, yob, rs, ls, sp) ==
    [run_no |-> 0, age_cat |-> ac, gender |-> g, yob |-> yob,
     race_state |-> rs, last_split |-> ls, sp |-> sp]

\* What a results site shows for a runner: the state and last split that go
\* with the recorded splits (London and Boston scrape both; Houston scrapes the
\* state from the totals row).
Recorded(c) == c.time.t = "str" /\ ~HasPlaceholder(c.time.s)
RecordedIdx(sp) == {i \in DOMAIN sp : Recorded(sp[i])}
SiteSplitNames == <<S_5K, S_20K, S_Finish>>
SiteLastSplit(sp) ==
    IF RecordedIdx(sp) = {} THEN Null
    ELSE StrV(SiteSplitNames[CHOOSE i \in RecordedIdx(sp) : \A j \in RecordedIdx(sp) : j <= i])
SiteRaceState(m, sp) ==
    LET names == CASE m = "Boston"  -> <<S_finished, S_started, S_not_started>>
                   [] m = "Houston" -> <<S_Finished, S_DNF, S_DNS>>
                   [] OTHER         -> <<S_Finished, S_Started, S_NotStarted>>
    IN  IF Recorded(sp[Len(sp)]) THEN StrV(names[1])
        ELSE IF RecordedIdx(sp) # {} THEN StrV(names[2]) ELSE StrV(names[3])

\* The states Houston1819.parse_split can store.
HoustonStates == {S_Finished, S_DNF, S_DQ_Over6h, S_DQ_Switch, S_DQ_MissingSplit,
                  S_DQ_NoReason, S_DNS, S_Other}

\* Age category and gender (Stockholm: year of birth and gender) of a runner:
\* the usual one first, then one merged by the cleaner, one below 40, a
\* missing category, a missing gender, and one the cleaner has no rule for or
\* lists as invalid.
UsualDemo(m) ==
    CASE m = "Hamburg"   -> <<StrV(HAM_M40), StrV(S_M), Null>>
      [] m = "Stockholm" -> <<Null, StrV(S_M), IntV(77)>>
      [] OTHER           -> <<StrV(AC_40_44), StrV(S_M), Null>>
OtherDemos(m) ==
    CASE m = "Hamburg" ->
           {<<StrV(HAM_W75), StrV(S_W), Null>>, <<StrV(HAM_MH), StrV(S_M), Null>>,
            <<Null, StrV(S_M), Null>>, <<StrV(HAM_M40), Null, Null>>,
            <<StrV(HAM_M90), StrV(S_M), Null>>}
      [] m = "Stockholm" ->
           {<<Null, StrV(S_W), IntV(44)>>, <<Null, StrV(S_M), IntV(99)>>,
            <<Null, StrV(S_M), Null>>, <<Null, Null, IntV(77)>>,
            <<Null, StrV(S_M), IntV(3)>>}
      [] m \in {"London", "Boston"} ->
           {<<StrV(AC_75_79), StrV(S_W), Null>>, <<StrV(AC_18_39), StrV(S_M), Null>>,
            <<Null, StrV(S_M), Null>>, <<StrV(AC_40_44), Null, Null>>,
            <<StrV(AC_U18), StrV(S_M), Null>>}
      [] m = "Chicago" ->
           {<<StrV(AC_75_79), StrV(S_W), Null>>, <<StrV(AC_35_39), StrV(S_M), Null>>,
            <<Null, StrV(S_M), Null>>, <<StrV(AC_40_44), Null, Null>>,
            <<StrV(AC_W15), StrV(S_W), Null>>, <<StrV(AC_U18), StrV(S_M), Null>>}
      [] m = "Houston" ->
           {<<StrV(AC_75_79), StrV(S_W), Null>>, <<StrV(AC_35_39), StrV(S_M), Null>>,
            <<Null, StrV(S_M), Null>>, <<StrV(AC_40_44), Null, Null>>,
            <<StrV(AC_Elites), StrV(S_M), Null>>, <<StrV(AC_U18), StrV(S_M), Null>>}

Scrapes(m) == m \in {"London", "Boston"}    \* race_state and last_split come scraped
SiteRow(m, d, sp) ==
    RawRow(d[1], d[2], d[3],
           IF Scrapes(m) \/ m = "Houston" THEN SiteRaceState(m, sp) ELSE Null,
           IF Scrapes(m) THEN SiteLastSplit(sp) ELSE Null, sp)

\* The runners a raw table of marathon m is made of.
RawRows(m) ==
    {SiteRow(m, UsualDemo(m), sp) : sp \in SplitProfiles}
    \cup {SiteRow(m, d, sp) : d \in OtherDemos(m), sp \in {UpTo20k, Finisher}}
    \cup (IF Scrapes(m) \/ m = "Houston"
          THEN {RawRow(UsualDemo(m)[1], UsualDemo(m)[2], Null, Null, Null, sp) :
                    sp \in {UpTo20k, Finisher}}
          ELSE {})
    \cup (IF m = "Houston"
          THEN {RawRow(UsualDemo(m)[1], UsualDemo(m)[2], Null, StrV(st), Null, Finisher) :
                    st \in HoustonStates}
               \cup {RawRow(UsualDemo(m)[1], UsualDemo(m)[2], Null, StrV(st), Null, UpTo20k) :
                    st \in {S_Finished, S_DNS}}
          ELSE {})

\* The three runners of the end-to-end scenario, and three more: a runner
\* without any split cell, a finisher whose finish has a time only, and a
\* runner the site calls not started whose 5k split is recorded.
TheFinisher(m)   == SiteRow(m, UsualDemo(m), Finisher)
TheDropout(m)    == SiteRow(m, UsualDemo(m), UpTo20k)
TheNotStarted(m) == SiteRow(m, UsualDemo(m), AllEstimated)
Runners(m) ==
    {TheFinisher(m), TheDropout(m), TheNotStarted(m),
     SiteRow(m, UsualDemo(m), NoSplits), SiteRow(m, UsualDemo(m), FinishTimeOnly),
     [SiteRow(m, UsualDemo(m), UpTo5k) EXCEPT
         !.race_state = IF Scrapes(m) \/ m = "Houston"
                        THEN SiteRaceState(m, NoSplits) ELSE Null]}

\* Appending a scraped runner: the row gets the next run number.
AddTo(df, r) == Append(df, [r EXCEPT !.run_no = Len(df) + 1])

(***************************************************************************)
(* Cleaning a raw table                                                    *)
(***************************************************************************)
CleanInit ==
    /\ marathon \in Marathons
    /\ table = <<>>
    /\ out = NoCall
    /\ UrlIdle /\ CrawlIdle /\ AgeIdle /\ CallIdle

\* One more runner is scraped into the raw table.
AddRow ==
    /\ out = NoCall
    /\ Len(table) < MaxRows
    /\ \E r \in RawRows(marathon) : table' = AddTo(table, r)
    /\ UNCHANGED <<marathon, out, urlVars, crawlVars, ageVars, callVars>>

Clean(m) ==
    /\ out' = Return(Cleaner(m, table))
    /\ UNCHANGED <<marathon, table, urlVars, crawlVars, ageVars, callVars>>

LondonClean    == marathon = "London" /\ out = NoCall /\ Clean("London")
HamburgClean   == marathon = "Hamburg" /\ out = NoCall /\ Clean("Hamburg")
StockholmClean == marathon = "Stockholm" /\ out = NoCall /\ Clean("Stockholm")
BostonClean    == marathon = "Boston" /\ out = NoCall /\ Clean("Boston")
ChicagoClean   == marathon = "Chicago" /\ out = NoCall /\ Clean("Chicago")
HoustonClean   == marathon = "Houston" /\ out = NoCall /\ Clean("Houston")

Cleaners ==
    \/ LondonClean \/ HamburgClean \/ StockholmClean
    \/ BostonClean \/ ChicagoClean \/ HoustonClean

CleanNext == AddRow \/ Cleaners

SpecClean == CleanInit /\ [][CleanNext]_vars

\* The end-to-end runs: tables of up to MaxRunners runners of the scenario.
MaxRunners == 3
AddRunner ==
    /\ out = NoCall
    /\ Len(table) < MaxRunners
    /\ \E r \in Runners(marathon) : table' = AddTo(table, r)
    /\ UNCHANGED <<marathon, out, urlVars, crawlVars, ageVars, callVars>>

RaceNext == AddRunner \/ Cleaners

SpecRace == CleanInit /\ [][RaceNext]_vars

Cleaned == out.kind = "return"
OutRows == IF Cleaned THEN out.value ELSE <<>>
\* The raw row an output row was cleaned from.
RawOf(row) == table[row.run_no]
Derives(m) == m \in {"Hamburg", "Stockholm", "Chicago"}   \* derives both columns

(***************************************************************************)
(* Properties of the cleaned tables                                        *)
(***************************************************************************)
FinishIdx == Len(SplitsKeys)
IsFinished(row) == row.race_state = StrV(S_Finished)
IsStarted(row)  == row.race_state = StrV(S_Started)
StdName(i) == StrV(LastSplitStd(TimeCol(SplitsKeys[i])))
FurthestTimed(row) == CHOOSE i \in TimedIdx(row) : \A j \in TimedIdx(row) : j <= i
TimesIncrease(row) ==
    \A i, j \in TimedIdx(row) : i < j => row.sp[i].time.n < row.sp[j].time.n
\* The scraped race_state as the cleaner passes it on.
PassedOn(m, rs) ==
    IF rs.t # "str" THEN rs
    ELSE IF m = "Boston" THEN StrV(Capitalize(rs.s))
    ELSE IF m = "Houston" /\ rs.s \in HoustonUnfinished THEN StrV(S_Started)
    ELSE rs

\* C5 as claimed: in every row a cleaner outputs, race_state is "Finished" if
\* and only if last_split is the finish checkpoint name.
C5_AsClaimed ==
    \A i \in DOMAIN OutRows :
        IsFinished(OutRows[i]) <=> (OutRows[i].last_split = StrV(S_Finish))

\* C5 as amended: the equivalence holds for the cleaners that derive race_state
\* from last_split (Hamburg, Stockholm, Chicago; a row there is Finished when
\* its last_split is the finish checkpoint name and Started otherwise). London
\* and Boston output the scraped race_state (Boston capitalized) and the
\* scraped last_split as they are; Houston outputs the state of the totals row
\* (DNF and the two disqualifications it keeps collapsed to Started) whatever
\* last_split it derives from the times.
C5_FinishedIffFinishSplit ==
    \A i \in DOMAIN OutRows :
        LET row == OutRows[i]
        IN  IF Derives(marathon)
            THEN /\ IsFinished(row) <=> (row.last_split = StrV(S_Finish))
                 /\ IsFinished(row) \/ IsStarted(row)
            ELSE /\ row.race_state = PassedOn(marathon, RawOf(row).race_state)
                 /\ Scrapes(marathon) => row.last_split = RawOf(row).last_split

\* A derived Finished row with the finish name, and a Houston row whose state
\* and last split disagree.
C5_Witness ==
    /\ Cleaned
    /\ \/ /\ marathon = "Hamburg"
          /\ \E i \in DOMAIN OutRows :
                IsFinished(OutRows[i]) /\ OutRows[i].last_split = StrV(S_Finish)
       \/ /\ marathon = "Houston"
          /\ \E i \in DOMAIN OutRows :
                IsStarted(OutRows[i]) /\ OutRows[i].last_split = StrV(S_Finish)

\* C6 as claimed: in every cleaned row, race_state is Finished if and only if
\* the finish checkpoint k_finish has a valid, non-null time.
C6_AsClaimed ==
    \A i \in DOMAIN OutRows :
        IsFinished(OutRows[i]) <=> (OutRows[i].sp[FinishIdx].time.t = "int")

\* C6 as amended: for Hamburg, Stockholm and Chicago a row is Finished if and
\* only if its finish time is non-null and larger than the time of every other
\* checkpoint of the row (a finish time that is not the row's single largest
\* time gives Started). For London, Boston and Houston a row is Finished if and
\* only if the scraped state says so, whatever its finish time.
C6_FinishedIffFinishIsLargest ==
    \A i \in DOMAIN OutRows :
        LET row == OutRows[i]
            fin == row.sp[FinishIdx].time
        IN  IF Derives(marathon)
            THEN IsFinished(row) <=>
                    /\ fin.t = "int"
                    /\ \A j \in TimedIdx(row) \ {FinishIdx} : row.sp[j].time.n < fin.n
            ELSE IsFinished(row) <=>
                    (RawOf(row).race_state \in {StrV(S_Finished), StrV(S_finished)})

\* A derived row with a valid finish time that is not Finished.
C6_Witness ==
    /\ Cleaned /\ Derives(marathon)
    /\ \E i \in DOMAIN OutRows :
          OutRows[i].sp[FinishIdx].time.t = "int" /\ IsStarted(OutRows[i])

DerivesLastSplit(m) == Derives(m) \/ m = "Houston"

\* C7 as claimed: where the cleaner derives last_split (Hamburg, Stockholm,
\* Chicago, Houston), it names the furthest checkpoint in course order whose
\* time is non-null, for every row with at least one non-null split time.
C7_AsClaimed ==
    DerivesLastSplit(marathon) =>
        \A i \in DOMAIN OutRows :
            TimedIdx(OutRows[i]) # {} =>
                OutRows[i].last_split = StdName(FurthestTimed(OutRows[i]))

\* C7 as amended: the derived last_split names the checkpoint whose time is
\* the largest of the row, the first such checkpoint in course order when
\* several share it; that is the furthest checkpoint with a non-null time
\* when the row's non-null times increase along the course.
C7_LastSplitIsLargestTime ==
    DerivesLastSplit(marathon) =>
        \A i \in DOMAIN OutRows :
            LET row == OutRows[i]
            IN  TimedIdx(row) # {} =>
                  /\ \E k \in TimedIdx(row) :
                        /\ row.last_split = StdName(k)
                        /\ \A j \in TimedIdx(row) :
                              /\ row.sp[j].time.n <= row.sp[k].time.n
                              /\ row.sp[j].time.n = row.sp[k].time.n => k <= j
                  /\ TimesIncrease(row) => row.last_split = StdName(FurthestTimed(row))

\* A derived last_split that is not the furthest timed checkpoint.
C7_Witness ==
    /\ Cleaned /\ DerivesLastSplit(marathon)
    /\ \E i \in DOMAIN OutRows :
          /\ TimedIdx(OutRows[i]) # {}
          /\ OutRows[i].last_split = StdName(1)
          /\ FurthestTimed(OutRows[i]) = 2

\* C8 as claimed: after any cleaner, age_cat, gender, race_state and last_split
\* hold no null in any row, and every age_cat is one of the canonical eight.
C8_AsClaimed ==
    \A i \in DOMAIN OutRows :
        LET row == OutRows[i]
        IN  /\ NotNull(row.age_cat) /\ NotNull(row.gender)
            /\ NotNull(row.race_state) /\ NotNull(row.last_split)
            /\ IsCanonical(row.age_cat)

\* ---- end to end

NotStartedNames == {S_NotStarted, S_not_started, S_DNS}
ExplicitNotStarted(r) == r.race_state.t = "str" /\ r.race_state.s \in NotStartedNames
\* All split columns null, placeholders counted as null.
NoSplitData(r) == AllSplitsNull(ReplaceValueInCols(<<r>>)[1])
TimeOnlySplit(r) == HasTimeOnlySplit(ReplaceValueInCols(<<r>>)[1], {})
OutRunNos == {OutRows[i].run_no : i \in DOMAIN OutRows}

IsScenario ==
    /\ Len(table) = 3
    /\ {table[i].sp : i \in DOMAIN table} = {Finisher, UpTo20k, AllEstimated}

MaxDelta == 960   \* largest time difference between the checked checkpoints

K_10   == <<"k", "_", "1", "0">>
K_15   == <<"k", "_", "1", "5">>
K_half == <<"k", "_", "h", "a", "l", "f">>
K_25   == <<"k", "_", "2", "5">>
K_30   == <<"k", "_", "3", "0">>
K_35   == <<"k", "_", "3", "5">>
K_40   == <<"k", "_", "4", "0">>

\* A number with a fractional part, in ten-thousandths (the segment
\* distances have four decimals).
Fix(v) == [t |-> "fix", v |-> v]
IsNum(c) == c.t \in {"int", "fix"}
TenK(c) == IF c.t = "int" THEN c.n * 10000 ELSE c.v
\* Series.round(0) of a value in ten-thousandths: whole seconds, a tie to even
Round0(v) == RoundDiv(v, 10000)

\* distance_dict.get(pace column, 5), in ten-thousandths of a km
DistanceOfFive(key) == 50000
DistanceOf(key) ==
    CASE key = K_25     -> 39025
      [] key = K_half   -> 10975
      [] key = K_finish -> 21950
      [] OTHER          -> 50000

\* One pass of the loop of valid_splits_time for a row: `cur` and `next` are
\* the cells of two adjacent time columns, next_key the key of the second. A
\* comparison with a null operand is false. Paces are whole seconds per km.
PaceMismatch(cur, next, next_key) ==
    /\ IsNum(cur.time) /\ IsNum(next.time) /\ next.pace.t = "int"
    /\ LET split_diff_time == Round0(TenK(next.time) - TenK(cur.time))
           split_non_cumulative_time ==
               Round0(next.pace.n * DistanceOf(next_key))
       IN  \/ split_non_cumulative_time < split_diff_time - 5
           \/ split_non_cumulative_time > split_diff_time + 5
TimeOverlap(cur, next) ==
    /\ IsNum(cur.time) /\ IsNum(next.time)
    /\ Round0(TenK(cur.time)) >= Round0(TenK(next.time))

\* invalid_index: the index labels (positions) of the rows some pass flags;
\* cols is the list of split keys in the column order of df.
InvalidIndex(df, cols) ==
    {r \in 1..Len(df) :
        \E idx \in 1..(Len(cols) - 1) :
            \/ PaceMismatch(df[r].sp[idx], df[r].sp[idx + 1], cols[idx + 1])
            \/ TimeOverlap(df[r].sp[idx], df[r].sp[idx + 1])}

\* valid_splits_time(df): (invalid_index.empty, invalid_index)
valid_splits_time(df, cols) ==
    [valid |-> InvalidIndex(df, cols) = {}, invalid_index |-> InvalidIndex(df, cols)]

ImpRow(rs, sp) == [race_state |-> rs, sp |-> sp]
NumCell(t, p, v) == [time |-> t, pace |-> p, speed |-> v]

\* Tables of one row around the 25k checkpoint: with the columns of k_20 and
\* k_25 only, and with those of k_20, k_half and k_25. The 20k time is 4800 s,
\* the half time lies 198 s (180 s/km over 1.0975 km) or 203 s after it.
Deltas == 690..MaxDelta
LegPaces == {180, 181}
LegTables ==
    {[cols |-> <<K_20, K_25>>,
      df |-> <<ImpRow(StrV(S_Finished),
                 <<NumCell(IntV(4800), IntV(180), Null),
                   NumCell(IntV(4800 + d), IntV(p), Null)>>)>>] :
        d \in Deltas, p \in LegPaces}
    \cup
    {[cols |-> <<K_20, K_half, K_25>>,
      df |-> <<ImpRow(StrV(S_Finished),
                 <<NumCell(IntV(4800), IntV(180), Null),
                   NumCell(IntV(4800 + h), IntV(180), Null),
                   NumCell(IntV(4800 + d), IntV(p), Null)>>)>>] :
        d \in Deltas, p \in LegPaces, h \in {198, 203}}

SplitsInit ==
    /\ call \in {[fn |-> "valid_splits_time", cols |-> t.cols, df |-> t.df] : t \in LegTables}
    /\ ret = NoCall /\ obj = NoCall
    /\ UrlIdle /\ CrawlIdle /\ CleanIdle /\ AgeIdle

ValidSplitsTime ==
    /\ call.fn = "valid_splits_time" /\ ret = NoCall
    /\ ret' = Return(valid_splits_time(call.df, call.cols))
    /\ UNCHANGED <<call, obj, urlVars, crawlVars, cleanVars, ageVars>>

SplitsNext == ValidSplitsTime

SpecSplits == SplitsInit /\ [][SplitsNext]_vars

Checked == call.fn = "valid_splits_time" /\ ret.kind = "return"
Time25 == call.df[1].sp[Len(call.cols)].time.n
Pace25 == call.df[1].sp[Len(call.cols)].pace.n
TimeBefore25 == call.df[1].sp[Len(call.cols) - 1].time.n
Time20 == call.df[1].sp[1].time.n

\* C11 as claimed: the leg ending at the 25k checkpoint is checked as a 5 km
\* segment measured from the 20k checkpoint: the row passes if and only if
\* |k_25_pace * 5 - (k_25_time - k_20_time)| <= 5.
C11_AsClaimed ==
    Checked =>
        (ret.value.valid <=>
            (Pace25 * 5 - (Time25 - Time20) \in -5..5))

\* C11 as amended: the leg ending at the 25k checkpoint is checked as a
\* 3.9025 km segment measured from the time column just before k_25_time
\* (k_half_time in the full table): the pair passes if and only if
\* |round(k_25_pace * 3.9025) - (k_25_time - previous time)| <= 5 and the
\* previous time is smaller than k_25_time. The row k_20_time=4800,
\* k_25_time=5700, k_25_pace=180 fails when the two columns are adjacent
\* (implied 702 s against 900 s) and passes in a table with a half split
\* (k_half_time 4998 or 5003) between them; there a k_25_time of 5750 fails.
C11_Leg25kFromHalf ==
    Checked =>
        /\ (\A i \in 2..(Len(call.cols) - 1) :
                ~PaceMismatch(call.df[1].sp[i - 1], call.df[1].sp[i], call.cols[i])) =>
              (ret.value.valid <=>
                  /\ Round0(Pace25 * 39025) - (Time25 - TimeBefore25) \in -5..5
                  /\ TimeBefore25 < Time25)
        /\ (Time25 = 5700 /\ Pace25 = 180) =>
              (ret.value.valid <=> Len(call.cols) = 3)
        /\ (Len(call.cols) = 3 /\ Time25 = 5750 /\ Pace25 = 180) =>
              ~ret.value.valid

\* The row of the claim, checked in the table without the half columns
\* and rejected.
C11_Witness ==
    /\ Checked /\ call.cols = <<K_20, K_25>>
    /\ Time20 = 4800 /\ Time25 = 5700 /\ Pace25 = 180
    /\ ~ret.value.valid

(***************************************************************************)
(* Imputation of times and speeds (fill_time_speed_based_on_pace)          *)
(***************************************************************************)
\* A quotient kept exact: (1 / pace) * 3600
Ratio(num, den) == [t |-> "ratio", num |-> num, den |-> den]

\* The length of the segment that ends at `key`, in ten-thousandths of a km:
\* the branches of the loop over split_keys[1:]
FillDistanceFive(key) == 50000
FillDistance(key) ==
    CASE key = K_half   -> 10975
      [] key = K_25     -> 39025
      [] key = K_finish -> 21950
      [] OTHER          -> 50000

\* row[pace] * d in ten-thousandths of a second, for a pace in whole seconds
\* per km or in hundredths of a second (an imputed pace); d is in
\* ten-thousandths of a km.
PaceByDistance(pace, d) ==
    IF pace.t = "int" THEN pace.n * d ELSE (pace.h * d) \div 100

\* The lambdas applied to a listed row: the time of a split from its pace and
\* the time of split_keys[i - 1] in the table as filled so far; NaN in an
\* operand gives NaN.
FilledTime(row, split_keys, i) ==
    LET pace == row.sp[i].pace
    IN  IF pace.t = "null" THEN Null
        ELSE IF split_keys[i] = K_5 THEN Fix(PaceByDistance(pace, 50000))
        ELSE IF ~IsNum(row.sp[i - 1].time) THEN Null
        ELSE Fix(PaceByDistance(pace, FillDistance(split_keys[i]))
                 + TenK(row.sp[i - 1].time))
FilledSpeed(pace) ==
    IF pace.t = "null" THEN Null
    ELSE IF pace.t = "int" THEN Ratio(3600, pace.n) ELSE Ratio(360000, pace.h)

\* df.loc[miss_indices[key], ...] = ... for the key at position i
FillKey(df, miss_indices, split_keys, i) ==
    [r \in 1..Len(df) |->
        IF r \in miss_indices[i]
        THEN [df[r] EXCEPT !.sp[i] =
                 [time  |-> FilledTime(df[r], split_keys, i),
                  pace  |-> df[r].sp[i].pace,
                  speed |-> FilledSpeed(df[r].sp[i].pace)]]
        ELSE df[r]]

RECURSIVE FillFrom(_, _, _, _)
FillFrom(df, miss_indices, split_keys, i) ==
    IF i > Len(split_keys) THEN df
    ELSE FillFrom(FillKey(df, miss_indices, split_keys, i), miss_indices, split_keys, i + 1)

\* fill_time_speed_based_on_pace(df, miss_indices, split_keys): split_keys
\* begins with k_5, the key the first statement names; miss_indices is kept as
\* the list of index sets in the order of split_keys.
fill_time_speed_based_on_pace(df, miss_indices, split_keys) ==
    FillFrom(df, miss_indices, split_keys, 1)

\* Rows to impute. At each checkpoint a row is recorded (time, pace and speed
\* scraped), missing (only the imputed pace is there; its index is listed in
\* miss_indices) or holed (the time alone is null: not listed).
RecordedTime(key) ==
    CASE key = K_5 -> 1500 [] key = K_20 -> 6000 [] key = K_half -> 6329
      [] key = K_25 -> 7500 [] key = K_40 -> 12000 [] OTHER -> 12658
CellKinds == {"recorded", "missing", "holed"}
FillCell(key, kind, pace) ==
    CASE kind = "recorded" -> NumCell(IntV(RecordedTime(key)), IntV(pace), FloatV(1200))
      [] kind = "missing"  -> NumCell(Null, IntV(pace), Null)
      [] OTHER             -> NumCell(Null, IntV(pace), FloatV(1200))
FillRow(rs, split_keys, kinds, pace) ==
    ImpRow(rs, [i \in 1..Len(split_keys) |-> FillCell(split_keys[i], kinds[i], pace)])
\* get_indices_of_rows_missing_data: per split, the rows with time, pace and
\* speed all null before the paces were imputed
MissIndices(kinds_of_rows, split_keys) ==
    [i \in 1..Len(split_keys) |->
        {r \in 1..Len(kinds_of_rows) : kinds_of_rows[r][i] = "missing"}]

FillKeyLists == {<<K_5, K_20, K_half, K_25, K_finish>>, <<K_5, K_20, K_25, K_40>>}
FillPaces == {287, 300}

FillInit ==
    /\ \E split_keys \in FillKeyLists, pace \in FillPaces :
       \E kinds \in [1..Len(split_keys) -> CellKinds] :
           call = [fn |-> "fill_time_speed_based_on_pace",
                   df |-> <<FillRow(StrV(S_Finished), split_keys, kinds, pace)>>,
                   miss_indices |-> MissIndices(<<kinds>>, split_keys),
                   split_keys |-> split_keys]
    /\ ret = NoCall /\ obj = NoCall
    /\ UrlIdle /\ CrawlIdle /\ CleanIdle /\ AgeIdle

FillTimeSpeed ==
    /\ call.fn = "fill_time_speed_based_on_pace" /\ ret = NoCall
    /\ ret' = Return(fill_time_speed_based_on_pace(call.df, call.miss_indices, call.split_keys))
    /\ UNCHANGED <<call, obj, urlVars, crawlVars, cleanVars, ageVars>>

FillNext == FillTimeSpeed

SpecFill == FillInit /\ [][FillNext]_vars

Filled == call.fn = "fill_time_speed_based_on_pace" /\ ret.kind = "return"

\* C13: in the table fill_time_speed_based_on_pace returns, every listed
\* cell has time = pace * d + the time of the previous checkpoint (pace * 5 at
\* the first checkpoint) and speed = 3600 / pace, with d = 1.0975 km for the
\* half, 3.9025 km for 25k, 2.195 km for the finish and 5 km otherwise, the
\* previous time being the one filled just before when it was missing too;
\* every cell that is not listed is unchanged.
C13_FillFromPace ==
    Filled =>
        \A r \in 1..Len(call.df) : \A i \in 1..Len(call.split_keys) :
            LET key == call.split_keys[i]
                old == call.df[r].sp[i]
                new == ret.value[r].sp[i]
                d   == IF key = K_half THEN 10975
                       ELSE IF key = K_25 THEN 39025
                       ELSE IF key = K_finish THEN 21950 ELSE 50000
            IN  IF r \in call.miss_indices[i]
                THEN /\ new.pace = old.pace
                     /\ new.speed = Ratio(3600, old.pace.n)
                     /\ IF i = 1 THEN new.time = Fix(old.pace.n * 50000)
                        ELSE LET prev == ret.value[r].sp[i - 1].time
                             IN  IF prev = Null THEN new.time = Null
                                 ELSE new.time = Fix(old.pace.n * d + TenK(prev))
                ELSE new = old

\* A runner missing the half and the 25k split after a recorded 20k time of
\* 6000 s, at 300 s/km: the half is filled with 6329.25 s and the 25k with
\* 7500 s, computed from the filled half.
C13_Witness ==
    /\ Filled
    /\ call.split_keys = <<K_5, K_20, K_half, K_25, K_finish>>
    /\ call.miss_indices = <<{}, {}, {1}, {1}, {}>>
    /\ call.df[1].sp[2].time = IntV(6000) /\ call.df[1].sp[3].pace = IntV(300)
    /\ ret.value[1].sp[3].time = Fix(63292500)
    /\ ret.value[1].sp[4].time = Fix(75000000)
    /\ ret.value[1].sp[4].speed = Ratio(3600, 300)

(***************************************************************************)
(* The full table (gen_full_df)                                            *)
(***************************************************************************)
MaxGenRows == 3

\* df.loc[:, cols_to_process].round(0): times and paces to whole seconds
RoundCell(c) ==
    IF c.t = "fix" THEN IntV(Round0(c.v))
    ELSE IF c.t = "float" THEN IntV(RoundDiv(c.h, 100))
    ELSE c
RoundTimesAndPaces(df) ==
    [r \in 1..Len(df) |->
        [df[r] EXCEPT !.sp =
            [i \in 1..Len(df[r].sp) |->
                [time  |-> RoundCell(df[r].sp[i].time),
                 pace  |-> RoundCell(df[r].sp[i].pace),
                 speed |-> df[r].sp[i].speed]]]]

\* df.isna() of a row: a null race_state or a null in a split column
HasNull(row) ==
    \/ row.race_state = Null
    \/ \E i \in 1..Len(row.sp) :
          row.sp[i].time = Null \/ row.sp[i].pace = Null \/ row.sp[i].speed = Null

\* df.loc[invalid_index, "race_state"].value_counts().index
RaceStateValues(df, invalid_index) ==
    {df[r].race_state : r \in invalid_index} \ {Null}

RECURSIVE DropIndex(_, _, _)
DropIndex(df, index, r) ==
    IF r > Len(df) THEN <<>>
    ELSE (IF r \in index THEN <<>> ELSE <<df[r]>>) \o DropIndex(df, index, r + 1)

\* The branch taken when drop_invalid_splits is true: the message indexes the
\* first two race states of the invalid rows before the rows are dropped.
DropInvalid(df, invalid_index) ==
    IF Cardinality(RaceStateValues(df, invalid_index)) < 2
    THEN Raise("IndexError", "index out of bounds")
    ELSE Return(DropIndex(df, invalid_index, 1))

\* gen_full_df(df, miss_indices, splits_names, drop_invalid_splits); the
\* columns of df are those of splits_names, ending with k_finish_speed.
gen_full_df(df, miss_indices, splits_names, drop_invalid_splits) ==
    LET full == RoundTimesAndPaces(
                    fill_time_speed_based_on_pace(df, miss_indices, splits_names))
        miss_values == \E r \in 1..Len(full) : HasNull(full[r])
        check == valid_splits_time(full, splits_names)
    IN  IF check.valid /\ ~miss_values THEN Return(full)
        ELSE IF drop_invalid_splits THEN DropInvalid(full, check.invalid_index)
        ELSE Raise("ValueError", "Invalid splits time or there are still missing values")

\* Runners at 300 s/km over the checkpoints 5k, 10k and finish.
GenKeys == <<K_5, K_10, K_finish>>
GenCell(t) == NumCell(IntV(t), IntV(300), FloatV(1200))
GenRows ==
    {[row |-> ImpRow(StrV(S_Finished), <<GenCell(1500), GenCell(3000), GenCell(3659)>>),
      kinds |-> <<"recorded", "recorded", "recorded">>],
     [row |-> ImpRow(StrV(S_Finished),
                     <<GenCell(1500), NumCell(Null, IntV(300), Null), GenCell(3659)>>),
      kinds |-> <<"recorded", "missing", "recorded">>],
     [row |-> ImpRow(StrV(S_Finished), <<GenCell(1500), GenCell(3060), GenCell(3719)>>),
      kinds |-> <<"recorded", "recorded", "recorded">>],
     [row |-> ImpRow(StrV(S_Started), <<GenCell(1500), GenCell(3060), GenCell(3719)>>),
      kinds |-> <<"recorded", "recorded", "recorded">>],
     [row |-> ImpRow(StrV(S_Started),
                     <<GenCell(1500), GenCell(3000), NumCell(Null, IntV(300), FloatV(1200))>>),
      kinds |-> <<"recorded", "recorded", "holed">>],
     [row |-> ImpRow(StrV(S_Started),
                     <<NumCell(Null, IntV(300), FloatV(1200)), NumCell(Null, IntV(300), Null),
                       GenCell(3659)>>),
      kinds |-> <<"holed", "missing", "recorded">>],
     [row |-> ImpRow(StrV(S_Started),
                     <<GenCell(1500), NumCell(Null, IntV(300), FloatV(1200)), GenCell(1400)>>),
      kinds |-> <<"recorded", "holed", "recorded">>]}
GenTables == UNION {[1..n -> GenRows] : n \in 1..MaxGenRows}

GenInit ==
    /\ \E t \in GenTables, drop \in BOOLEAN :
           call = [fn |-> "gen_full_df",
                   df |-> [r \in 1..Len(t) |-> t[r].row],
                   miss_indices |-> MissIndices([r \in 1..Len(t) |-> t[r].kinds], GenKeys),
                   split_keys |-> GenKeys,
                   drop_invalid_splits |-> drop]
    /\ ret = NoCall /\ obj = NoCall
    /\ UrlIdle /\ CrawlIdle /\ CleanIdle /\ AgeIdle

GenFullDf ==
    /\ call.fn = "gen_full_df" /\ ret = NoCall
    /\ ret' = gen_full_df(call.df, call.miss_indices, call.split_keys,
                          call.drop_invalid_splits)
    /\ UNCHANGED <<call, obj, urlVars, crawlVars, cleanVars, ageVars>>

GenNext == GenFullDf

SpecGen == GenInit /\ [][GenNext]_vars

\* The table as imputed and rounded, and its rows that fail the check of the
\* split times or hold a null
GenFull ==
    RoundTimesAndPaces(
        fill_time_speed_based_on_pace(call.df, call.miss_indices, call.split_keys))
BadRows ==
    {r \in 1..Len(GenFull) :
        r \in InvalidIndex(GenFull, call.split_keys) \/ HasNull(GenFull[r])}

\* C12 as claimed: gen_full_df never returns a table that holds a row
\* failing the check of the split times or a row with a null: with
\* drop_invalid_splits true it returns the table without every such row, with
\* drop_invalid_splits false it raises ValueError whenever such a row exists.
C12_AsClaimed ==
    (call.fn = "gen_full_df" /\ ret # NoCall) =>
        /\ ret.kind = "return" =>
              \A r \in 1..Len(ret.value) :
                  /\ ~HasNull(ret.value[r])
                  /\ r \notin InvalidIndex(ret.value, call.split_keys)
        /\ call.drop_invalid_splits => ret = Return(DropIndex(GenFull, BadRows, 1))
        /\ (~call.drop_invalid_splits /\ BadRows # {}) =>
              (ret.kind = "raise" /\ ret.exc = "ValueError")

(***************************************************************************)
(* Times and paces in seconds (convert_to_sec)                             *)
(***************************************************************************)
\* The two-digit text of a number below 100
TwoDigits(n) == <<DecStr[(n \div 10) + 1], DecStr[(n % 10) + 1]>>
Colon == <<":">>
Hms(h, m, sec) == TwoDigits(h) \o Colon \o TwoDigits(m) \o Colon \o TwoDigits(sec)

SecHours == {0, 1, 5, 23, 25}
SecMinutes == {0, 2, 4, 59}
SecSeconds == {0, 3, 30, 59}
\* Scraped times: hh:mm:ss, a time without its seconds, nothing
TimeTexts ==
    {StrV(Hms(h, m, sec)) : h \in SecHours, m \in {2, 59}, sec \in {3, 59}}
    \cup {StrV(<<"0", "1", ":", "0", "2">>), Null}
\* Scraped paces: mm:ss, m:ss, hh:mm:ss, h:m:s (five characters), nothing
PaceTexts ==
    {StrV(TwoDigits(m) \o Colon \o TwoDigits(sec)) : m \in SecMinutes, sec \in SecSeconds}
    \cup {StrV(<<DecStr[m + 1]>> \o Colon \o TwoDigits(sec)) : m \in {4, 9}, sec \in {0, 30}}
    \cup {StrV(Hms(0, m, 30)) : m \in SecMinutes}
    \cup {StrV(<<"1", ":", "2", ":", "3">>), Null}

SecInit ==
    /\ \E time \in TimeTexts, pace \in PaceTexts :
           call = [fn |-> "convert_to_sec",
                   df |-> <<[sp |-> <<[time |-> time, pace |-> pace, speed |-> Null]>>]>>]
    /\ ret = NoCall /\ obj = NoCall
    /\ UrlIdle /\ CrawlIdle /\ CleanIdle /\ AgeIdle

ConvertToSecCall ==
    /\ call.fn = "convert_to_sec" /\ ret = NoCall
    /\ ret' = Return(ConvertToSec(call.df))
    /\ UNCHANGED <<call, obj, urlVars, crawlVars, cleanVars, ageVars>>

SecNext == ConvertToSecCall

SpecSec == SecInit /\ [][SecNext]_vars

Converted == call.fn = "convert_to_sec" /\ ret.kind = "return"
TimeIn == call.df[1].sp[1].time
PaceIn == call.df[1].sp[1].pace
TimeOut == ret.value[1].sp[1].time
PaceOut == ret.value[1].sp[1].pace
\* Reading a text by the positions of its characters
IsHms(c) ==
    /\ c.t = "str" /\ Len(c.s) = 8 /\ c.s[3] = ":" /\ c.s[6] = ":"
    /\ \A i \in {1, 2, 4, 5, 7, 8} : IsDigit(c.s[i])
IsMs(c) ==
    /\ c.t = "str" /\ Len(c.s) = 5 /\ c.s[3] = ":"
    /\ \A i \in {1, 2, 4, 5} : IsDigit(c.s[i])
Pair(cs, i) == 10 * DigitVal(cs[i]) + DigitVal(cs[i + 1])

MaxMilePace == 560   \* sec/mile

\* Paces in sec/mile (whole, and 482.7), speeds in miles/h (hundredths), or
\* nothing
MilePaces == {IntV(n) : n \in 440..MaxMilePace} \cup {FloatV(48270), Null}
MileSpeeds == {FloatV(h) : h \in {643, 750, 1200, 1201}} \cup {Null}

ConvInit ==
    /\ \E pace \in MilePaces, speed \in MileSpeeds :
           call = [fn |-> "convert_pace_and_speed",
                   df |-> <<[sp |-> <<[time |-> Null, pace |-> pace, speed |-> speed]>>]>>]
    /\ ret = NoCall /\ obj = NoCall
    /\ UrlIdle /\ CrawlIdle /\ CleanIdle /\ AgeIdle

ConvertPaceAndSpeedCall ==
    /\ call.fn = "convert_pace_and_speed" /\ ret = NoCall
    /\ ret' = Return(ConvertPaceAndSpeed(call.df))
    /\ UNCHANGED <<call, obj, urlVars, crawlVars, cleanVars, ageVars>>

ConvNext == ConvertPaceAndSpeedCall

SpecConv == ConvInit /\ [][ConvNext]_vars

PerKm == call.fn = "convert_pace_and_speed" /\ ret.kind = "return"
MilePace == call.df[1].sp[1].pace
MileSpeed == call.df[1].sp[1].speed
KmPace == ret.value[1].sp[1].pace
KmSpeed == ret.value[1].sp[1].speed
Dist(a, b) == IF a >= b THEN a - b ELSE b - a

\* C15: convert_pace_and_speed replaces every non-null pace p by the whole
\* number nearest to p / 1.609 (482.7 gives 300) and every non-null speed s by
\* the number of two decimals nearest to s * 1.60934 (12.0 gives 19.31); a null
\* stays null.
C15_PerKm ==
    PerKm =>
        /\ MilePace.t = "int" =>
              (KmPace.t = "int" /\ 2 * Dist(1609 * KmPace.n, 1000 * MilePace.n) < 1609)
        /\ MilePace.t = "float" =>
              (KmPace.t = "int" /\ 2 * Dist(1609 * KmPace.n, 10 * MilePace.h) < 1609)
        /\ MilePace = FloatV(48270) => KmPace = IntV(300)
        /\ MileSpeed.t = "float" =>
              (KmSpeed.t = "float"
                  /\ 2 * Dist(100000 * KmSpeed.h, 160934 * MileSpeed.h) < 100000)
        /\ MileSpeed = FloatV(1200) => KmSpeed = FloatV(1931)
        /\ MilePace = Null => KmPace = Null
        /\ MileSpeed = Null => KmSpeed = Null

\* The pace 482.7 sec/mile with the speed 12.0 miles/h
C15_Witness ==
    /\ PerKm
    /\ MilePace = FloatV(48270) /\ MileSpeed = FloatV(1200)
    /\ KmPace = IntV(300) /\ KmSpeed = FloatV(1931)

(***************************************************************************)
(* The page parsers of the spiders                                         *)
(***************************************************************************)
MaxPageRows == 2

\* What a parser has produced when it ends: the items it yielded and the
\* exception that ended it, if one did.
Parsed(items, exc) == [kind |-> "parsed", items |-> items, exc |-> exc]

\* The fields MarathonsScrapyItem declares; Item.__setitem__ raises KeyError
\* for any other key.
ResultItemFields == {"run_no", "age_cat", "gender", "half", "finish", "idp"}

StartsAt(cs, i, sub) == i + Len(sub) - 1 <= Len(cs) /\ SubSeq(cs, i, i + Len(sub) - 1) = sub
Contains(cs, sub) == \E i \in 1..Len(cs) : StartsAt(cs, i, sub)
Lower(cs) == [i \in 1..Len(cs) |-> ToLower(cs[i])]

\* re.findall(".(?=&num)", url): the characters standing just before "&num"
GenderMatches(url) ==
    LET hits == {i \in 1..Len(url) : i > 1 /\ StartsAt(url, i, <<"&", "n", "u", "m">>)}
    IN  IF hits = {} THEN <<>>
        ELSE <<url[(CHOOSE i \in hits : \A j \in hits : i <= j) - 1]>>
\* re.findall("(?<=idp=).+?(?=&)", text)[0]: the shortest non-empty text
\* between the first "idp=" that has an "&" after it and that "&"; <<>> when
\* there is no match.
FirstIdp(text) ==
    LET ends(i) == {j \in (i + 1)..Len(text) : text[j] = "&"}
        starts == {i \in 5..Len(text) : StartsAt(text, i - 4, <<"i", "d", "p", "=">>) /\ ends(i) # {}}
    IN  IF starts = {} THEN <<>>
        ELSE LET i == CHOOSE a \in starts : \A b \in starts : a <= b
                 j == CHOOSE a \in ends(i) : \A b \in ends(i) : a <= b
             IN  SubSeq(text, i, j - 1)

\* One pass of the loop of a results parser: "item" when the row is yielded,
\* else the exception. gender_key is the key the parser stores the gender
\* under ("sex" in the London parsers).
RunnerOutcome(url, runner, gender_key) ==
    IF GenderMatches(url) = <<>> THEN "IndexError"
    ELSE IF gender_key \notin ResultItemFields THEN "KeyError"
    ELSE IF runner.href = Null THEN "TypeError"
    ELSE IF FirstIdp(runner.href.s) = <<>> THEN "IndexError"
    ELSE "item"
RunnerItem(url, runner) ==
    [run_no |-> runner.run_no, age_cat |-> runner.age_cat,
     gender |-> StrV(GenderMatches(url)), half |-> runner.half,
     finish |-> runner.finish, idp |-> StrV(FirstIdp(runner.href.s))]

RECURSIVE ParseRunners(_, _, _, _)
ParseRunners(url, runners, gender_key, items) ==
    IF runners = <<>> THEN Parsed(items, "none")
    ELSE LET o == RunnerOutcome(url, Head(runners), gender_key)
         IN  IF o # "item" THEN Parsed(items, o)
             ELSE ParseRunners(url, Tail(runners), gender_key,
                               Append(items, RunnerItem(url, Head(runners))))

\* LondonSpider1418.parse, on the rows after the table header
london_parse(response) == ParseRunners(response.url, response.runners, "sex", <<>>)

\* The loop over the rows of the splits table, where the class of the row
\* is searched for "estimated": the cells of each row, or TypeError.
SplitCells(split) ==
    IF Contains(split.class.s, <<"e", "s", "t", "i", "m", "a", "t", "e", "d">>)
    THEN Cell(StrV(S_Dash), StrV(S_Dash), StrV(S_Dash))
    ELSE Cell(split.time, split.pace, split.speed)
ClassMissing(splits) == \E i \in 1..Len(splits) : splits[i].class = Null
\* the splits filled up to the first row without a class
SplitsOf(splits) == [i \in 1..Len(splits) |-> SplitCells(splits[i])]

\* Hamburg1317.parse_split
hamburg_parse_split(response) ==
    IF FirstIdp(response.url) = <<>> THEN Parsed(<<>>, "IndexError")
    ELSE IF ClassMissing(response.splits) THEN Parsed(<<>>, "TypeError")
    ELSE Parsed(<<[idp |-> StrV(FirstIdp(response.url)),
                   sp |-> SplitsOf(response.splits)]>>, "none")

\* re.match("(\d{2}:\d{2}:\d{2})", finish_status)
StartsWithTime(cs) ==
    /\ Len(cs) >= 8 /\ cs[3] = ":" /\ cs[6] = ":"
    /\ \A i \in {1, 2, 4, 5, 7, 8} : IsDigit(cs[i])
\* The race state Houston1819.parse_split derives from the "Finish Net" cell
HoustonRaceState(finish_status) ==
    LET low == Lower(finish_status)
    IN  IF StartsWithTime(finish_status) THEN S_Finished
        ELSE IF low = <<"d", "n", "f">> THEN S_DNF
        ELSE IF low \in {<<"d", "q", " ", "-", " ", "o", "v", "e", "r", " ", "6", "h">>, <<"d", "q", " ", "-", " ", "o", "v", "e", "r", " ", "6", "h", "s">>, <<"d", "q", " ", "o", "v", "e", "r", " ", "6", " ", "h", "o", "u", "r", "s">>, <<"d", "q", " ", "-", " ", "o", "v", "e", "r", " ", "6", " ", "h", "r", "s">>, <<"o", "v", "e", "r", " ", "6", "h">>}
             THEN S_DQ_Over6h
        ELSE IF low = <<"d", "q", " ", "-", " ", "s", "w", "i", "t", "c", "h", " ", "f", "r", "o", "m", " ", "h", "a", "l", "f", " ", "t", "o", " ", "m", "a", "r", "a">> THEN S_DQ_Switch
        ELSE IF low \in {<<"d", "q", " ", "-", " ", "m", "i", "s", "s", "i", "n", "g", " ", "s", "p", "l", "i", "t">>, <<"m", "i", "s", "s", "i", "n", "g", " ", "s", "p", "l", "i", "t", "s">>} THEN S_DQ_MissingSplit
        ELSE IF low \in {<<"d", "q">>, <<"d", "q", " ", "-">>} THEN S_DQ_NoReason
        ELSE IF low = <<"d", "n", "s">> THEN S_DNS
        ELSE S_Other

\* Houston1819.parse_split: response.totals is the text of the first cell of
\* the fourth row of the totals table, NoRow when the table has fewer rows.
NoRow == [t |-> "norow"]
houston_parse_split(response) ==
    IF FirstIdp(response.url) = <<>> THEN Parsed(<<>>, "IndexError")
    ELSE IF ClassMissing(response.splits) THEN Parsed(<<>>, "TypeError")
    ELSE IF response.totals = NoRow THEN Parsed(<<>>, "IndexError")
    ELSE IF response.totals = Null THEN Parsed(<<>>, "TypeError")
    ELSE Parsed(<<[idp |-> StrV(FirstIdp(response.url)),
                   sp |-> SplitsOf(response.splits),
                   race_state |-> StrV(HoustonRaceState(response.totals.s))]>>, "none")

\* Pages. A node that is missing from the page is Null (Selector.get()).
ResultsUrl == <<"p", "i", "d", "=", "l", "i", "s", "t", "&", "s", "e", "x", "=", "M", "&", "n", "u", "m", "_", "r", "e", "s", "u", "l", "t", "s", "=", "2", "5">>
DetailUrl == <<"c", "o", "n", "t", "e", "n", "t", "=", "d", "e", "t", "a", "i", "l", "&", "i", "d", "p", "=", "A", "1", "&", "p", "i", "d", "=", "l", "i", "s", "t">>
RunnerRows ==
    [run_no : {Null, StrV(<<"1", "0", "1">>)},
     age_cat : {Null, StrV(AC_35_39)},
     half : {StrV(T_2)},
     finish : {Null, StrV(T_3)},
     href : {Null, StrV(<<"?", "p", "i", "d", "=", "l", "i", "s", "t">>), StrV(<<"?", "i", "d", "p", "=", "A", "1", "&", "p", "i", "d", "=", "l", "i", "s", "t">>)}]
SplitRows ==
    {[class |-> c, time |-> t, pace |-> r, speed |-> r] :
        c \in {Null, StrV(<<"s", "p", "l", "i", "t">>), StrV(<<"s", "p", "l", "i", "t", " ", "e", "s", "t", "i", "m", "a", "t", "e", "d">>)},
        t \in {Null, StrV(T_1)},
        r \in {Null, StrV(P_mmss)}}
TotalsCells ==
    {NoRow, Null, StrV(T_3), StrV(<<"D", "N", "F">>), StrV(<<"D", "Q">>), StrV(<<"n", "/", "a">>)}
Pages(Rows) == UNION {[1..n -> Rows] : n \in 0..MaxPageRows}

ParseInit ==
    /\ \/ \E runners \in Pages(RunnerRows) :
             call = [fn |-> "london.parse",
                     response |-> [url |-> ResultsUrl, runners |-> runners]]
       \/ \E splits \in Pages(SplitRows) :
             call = [fn |-> "hamburg.parse_split",
                     response |-> [url |-> DetailUrl, splits |-> splits]]
       \/ \E splits \in Pages(SplitRows), totals \in TotalsCells :
             call = [fn |-> "houston.parse_split",
                     response |-> [url |-> DetailUrl, splits |-> splits, totals |-> totals]]
    /\ ret = NoCall /\ obj = NoCall
    /\ UrlIdle /\ CrawlIdle /\ CleanIdle /\ AgeIdle

LondonParse ==
    /\ call.fn = "london.parse" /\ ret = NoCall
    /\ ret' = london_parse(call.response)
    /\ UNCHANGED <<call, obj, urlVars, crawlVars, cleanVars, ageVars>>

HamburgParseSplit ==
    /\ call.fn = "hamburg.parse_split" /\ ret = NoCall
    /\ ret' = hamburg_parse_split(call.response)
    /\ UNCHANGED <<call, obj, urlVars, crawlVars, cleanVars, ageVars>>

HoustonParseSplit ==
    /\ call.fn = "houston.parse_split" /\ ret = NoCall
    /\ ret' = houston_parse_split(call.response)
    /\ UNCHANGED <<call, obj, urlVars, crawlVars, cleanVars, ageVars>>

ParseNext == LondonParse \/ HamburgParseSplit \/ HoustonParseSplit

SpecParse == ParseInit /\ [][ParseNext]_vars

\* C16 as claimed: a parser never raises; a results page gives one record
\* per runner row, a split page gives its record, and a node missing from the
\* page shows as a null field of the record.
C16_AsClaimed ==
    (ret # NoCall /\ ret.kind = "parsed") =>
        /\ ret.exc = "none"
        /\ call.fn = "london.parse" =>
              /\ Len(ret.items) = Len(call.response.runners)
              /\ \A i \in 1..Len(ret.items) :
                    /\ ret.items[i].run_no = call.response.runners[i].run_no
                    /\ ret.items[i].age_cat = call.response.runners[i].age_cat
                    /\ ret.items[i].finish = call.response.runners[i].finish
        /\ call.fn \in {"hamburg.parse_split", "houston.parse_split"} =>
              /\ Len(ret.items) = 1
              /\ \A i \in 1..Len(call.response.splits) :
                    ~Contains(call.response.splits[i].class.s, <<"e", "s", "t", "i", "m", "a", "t", "e", "d">>) =>
                        ret.items[1].sp[i].time = call.response.splits[i].time

(***************************************************************************)
(* start_requests of the spiders                                           *)
(***************************************************************************)
MaxStartUrls == 3

\* What start_requests has produced when it ends: the requests it yielded,
\* the exception that ended it (if one did) and the attributes of the spider.
Started(requests, exc, attrs) ==
    [kind |-> "started", requests |-> requests, exc |-> exc, attrs |-> attrs]
Request(url, callback) == [url |-> url, callback |-> callback]

\* re.search("(?<=/)\d{4}(?=/)", url): the first four digits that stand
\* between two slashes; <<>> when there are none (re.search gives None).
YearSearch(url) ==
    LET hits == {i \in 2..(Len(url) - 4) :
                    /\ url[i - 1] = "/" /\ url[i + 4] = "/"
                    /\ \A k \in i..(i + 3) : IsDigit(url[k])}
    IN  IF hits = {} THEN <<>>
        ELSE LET i == CHOOSE a \in hits : \A b \in hits : a <= b
             IN  SubSeq(url, i, i + 3)

\* The callback the requests of a spider are given
CallbackAlwaysParse(spider, splits, year) == "parse"
CallbackOf(spider, splits, year) ==
    IF ~splits THEN "parse"
    ELSE IF spider = "chicago14_23" /\ year = StrV(<<"2", "0", "2", "2">>) THEN "parse_split_22"
    ELSE "parse_split"

\* for url in urls: yield scrapy.Request(url=url, callback=callback)
RequestsFor(urls, callback) == [i \in 1..Len(urls) |-> Request(urls[i], callback)]

\* LondonSpider1418.start_requests (the other spiders but the two below have
\* the same body)
london_start_requests(urls, splits) ==
    Started(RequestsFor(urls, CallbackOf("london14_18", splits, Null)), "none",
            [splits |-> splits])

\* Chicago1422.start_requests: year is the keyword argument kept as self.year
chicago_start_requests(urls, splits, year) ==
    Started(RequestsFor(urls, CallbackOf("chicago14_23", splits, year)), "none",
            [splits |-> splits,
             finish_div_idx |-> IF ~splits /\ year = StrV(<<"2", "0", "2", "2">>) THEN 2 ELSE 1])

\* Boston1823.start_requests: in results mode the year is read from urls[0]
\* before the first request is made.
boston_start_requests(urls, splits) ==
    IF splits
    THEN Started(RequestsFor(urls, CallbackOf("boston18_23", splits, Null)), "none",
                 [splits |-> splits, run_div_idx |-> 3])
    ELSE IF urls = <<>>
    THEN Started(<<>>, "IndexError", [splits |-> splits, run_div_idx |-> 3])
    ELSE IF YearSearch(urls[1]) = <<>>
    THEN Started(<<>>, "AttributeError", [splits |-> splits, run_div_idx |-> 3])
    ELSE Started(RequestsFor(urls, CallbackOf("boston18_23", splits, Null)), "none",
                 [splits |-> splits,
                  run_div_idx |-> IF NumberOf(YearSearch(urls[1])) > 2019 THEN 2 ELSE 3])

StartUrls == {<<"r", ".", "o", "r", "g", "/", "2", "0", "1", "9", "/", "?", "p", "a", "g", "e", "=", "1">>, <<"r", ".", "o", "r", "g", "/", "2", "0", "2", "1", "/", "?", "p", "a", "g", "e", "=", "2">>, <<"r", ".", "o", "r", "g", "/", "?", "p", "a", "g", "e", "=", "3">>}
UrlLists == UNION {[1..n -> StartUrls] : n \in 0..MaxStartUrls}
ChicagoYears == {Null, StrV(<<"2", "0", "1", "9">>), StrV(<<"2", "0", "2", "2">>)}

StartInit ==
    /\ \E urls \in UrlLists, splits \in BOOLEAN :
          \/ call = [fn |-> "start_requests", spider |-> "london14_18",
                     urls |-> urls, splits |-> splits, year |-> Null]
          \/ call = [fn |-> "start_requests", spider |-> "boston18_23",
                     urls |-> urls, splits |-> splits, year |-> Null]
          \/ \E year \in ChicagoYears :
                call = [fn |-> "start_requests", spider |-> "chicago14_23",
                        urls |-> urls, splits |-> splits, year |-> year]
    /\ ret = NoCall /\ obj = NoCall
    /\ UrlIdle /\ CrawlIdle /\ CleanIdle /\ AgeIdle

LondonStartRequests ==
    /\ call.fn = "start_requests" /\ call.spider = "london14_18" /\ ret = NoCall
    /\ ret' = london_start_requests(call.urls, call.splits)
    /\ UNCHANGED <<call, obj, urlVars, crawlVars, cleanVars, ageVars>>

ChicagoStartRequests ==
    /\ call.fn = "start_requests" /\ call.spider = "chicago14_23" /\ ret = NoCall
    /\ ret' = chicago_start_requests(call.urls, call.splits, call.year)
    /\ UNCHANGED <<call, obj, urlVars, crawlVars, cleanVars, ageVars>>

BostonStartRequests ==
    /\ call.fn = "start_requests" /\ call.spider = "boston18_23" /\ ret = NoCall
    /\ ret' = boston_start_requests(call.urls, call.splits)
    /\ UNCHANGED <<call, obj, urlVars, crawlVars, cleanVars, ageVars>>

StartNext == LondonStartRequests \/ ChicagoStartRequests \/ BostonStartRequests

SpecStart == StartInit /\ [][StartNext]_vars

HasStarted == call.fn = "start_requests" /\ ret.kind = "started"
OnePerUrl ==
    /\ Len(ret.requests) = Len(call.urls)
    /\ \A i \in 1..Len(call.urls) : ret.requests[i].url = call.urls[i]
ToParserOfMode ==
    \A i \in 1..Len(ret.requests) :
        IF call.splits THEN ret.requests[i].callback \in {"parse_split", "parse_split_22"}
        ELSE ret.requests[i].callback = "parse"
YearLess ==
    /\ call.spider = "boston18_23" /\ ~call.splits
    /\ (call.urls = <<>> \/ YearSearch(call.urls[1]) = <<>>)

\* C17 as claimed: start_requests issues exactly one request per URL of the
\* list, in list order, each to the split parser when splits is true and to
\* the results parser when it is false.
C17_AsClaimed ==
    HasStarted => (ret.exc = "none" /\ OnePerUrl /\ ToParserOfMode)

\* C17 as amended: start_requests issues exactly one request per URL of the
\* list, in list order, each to the split parser of the spider (for Chicago
\* the one of 2022 when the year is "2022") when splits is true and to the
\* results parser when it is false; except that Boston1823 in results mode
\* first reads the year from the first URL, and raises without issuing any
\* request when the list is empty or that URL holds no /yyyy/ segment.
C17_OnePerUrlUnlessYearLess ==
    HasStarted =>
        IF YearLess
        THEN ret.exc \in {"IndexError", "AttributeError"} /\ ret.requests = <<>>
        ELSE /\ ret.exc = "none" /\ OnePerUrl /\ ToParserOfMode
             /\ (call.spider = "chicago14_23" /\ call.splits) =>
                   \A i \in 1..Len(ret.requests) :
                       (ret.requests[i].callback = "parse_split_22")
                           <=> (call.year = StrV(<<"2", "0", "2", "2">>))

\* Boston1823 in results mode over two URLs of 2021: two requests, in order,
\* to the results parser
C17_Witness ==
    /\ HasStarted
    /\ call.spider = "boston18_23" /\ ~call.splits
    /\ call.urls = <<<<"r", ".", "o", "r", "g", "/", "2", "0", "2", "1", "/", "?", "p", "a", "g", "e", "=", "2">>, <<"r", ".", "o", "r", "g", "/", "2", "0", "1", "9", "/", "?", "p", "a", "g", "e", "=", "1">>>>
    /\ ret.requests = <<Request(call.urls[1], "parse"), Request(call.urls[2], "parse")>>
    /\ ret.attrs.run_div_idx = 2

(***************************************************************************)
(* Validation of a cleaned table (valid_df)                                *)
(***************************************************************************)
MinCats == 6   \* fewest canonical categories a drawn table holds

\* Series.count(): the cells of a column that are not null
CountOf(df, col) == Cardinality({i \in 1..Len(df) : df[i][col] # Null})

\* valid_df(df)
valid_df(df) ==
    IF {df[i].age_cat : i \in 1..Len(df)} # {StrV(c) : c \in CanonicalAgeCats}
    THEN Raise("AssertionError", "The age_cat column must only have these values")
    ELSE IF /\ CountOf(df, "age_cat") = CountOf(df, "gender")
            /\ CountOf(df, "gender") = CountOf(df, "race_state")
            /\ CountOf(df, "race_state") = CountOf(df, "last_split")
    THEN Return(TRUE)
    ELSE Return(FALSE)

\* Cleaned tables: one finisher for each category of a set of canonical
\* categories, and possibly one more runner with any of the four columns null
\* or a category outside the canonical set.
CanonSeq == <<AC_18_39, AC_40_44, AC_45_49, AC_50_54, AC_55_59, AC_60_64, AC_65_69, AC_70plus>>
CleanRow(ac, g, rs, ls) == [age_cat |-> ac, gender |-> g, race_state |-> rs, last_split |-> ls]
OnePerCat(cats) ==
    LET present == SelectSeq(CanonSeq, LAMBDA c : c \in cats)
    IN  [i \in 1..Len(present) |-> CleanRow(StrV(present[i]), StrV(S_M), StrV(S_Finished), StrV(S_Finish))]
ExtraRows ==
    {CleanRow(ac, g, rs, ls) :
        ac \in {StrV(AC_18_39), StrV(AC_U18), Null}, g \in {StrV(S_W), Null},
        rs \in {StrV(S_Started), Null}, ls \in {StrV(S_20K), Null}}
CleanedTables ==
    LET bases == {OnePerCat(cats) :
                     cats \in {c \in SUBSET CanonicalAgeCats : Cardinality(c) >= MinCats}}
    IN  bases \cup {Append(b, x) : b \in bases, x \in ExtraRows}

ValidInit ==
    /\ \E df \in CleanedTables : call = [fn |-> "valid_df", df |-> df]
    /\ ret = NoCall /\ obj = NoCall
    /\ UrlIdle /\ CrawlIdle /\ CleanIdle /\ AgeIdle

ValidDf ==
    /\ call.fn = "valid_df" /\ ret = NoCall
    /\ ret' = valid_df(call.df)
    /\ UNCHANGED <<call, obj, urlVars, crawlVars, cleanVars, ageVars>>

ValidNext == ValidDf

SpecValid == ValidInit /\ [][ValidNext]_vars

NoNullIn(df) ==
    \A i \in 1..Len(df) :
        /\ df[i].age_cat # Null /\ df[i].gender # Null
        /\ df[i].race_state # Null /\ df[i].last_split # Null
OnlyCanonical(df) ==
    \A i \in 1..Len(df) :
        df[i].age_cat # Null => (df[i].age_cat.t = "str" /\ df[i].age_cat.s \in CanonicalAgeCats)

\* C18 as claimed: valid_df returns True, without raising, if and only if
\* age_cat, gender, race_state and last_split hold no null and every age_cat
\* is one of the eight canonical categories; any other table is rejected by an
\* assertion error or by False.
C18_AsClaimed ==
    (call.fn = "valid_df" /\ ret # NoCall) =>
        /\ (ret = Return(TRUE)) <=> (NoNullIn(call.df) /\ OnlyCanonical(call.df))
        /\ ret # Return(TRUE) =>
              (ret = Return(FALSE) \/ (ret.kind = "raise" /\ ret.exc = "AssertionError"))

(***************************************************************************)
(* The marathon objects (MarathonBase and its subclasses)                  *)
(***************************************************************************)
\* A string that is kept whole
Text(str) == [t |-> "text", s |-> str]
SplitTemplate == "results/{0}/?content=detail&idp={1}"

\* not url_template or not split_url_template: None and "" are falsy
MissingFirstOnly(url_template, split_url_template) ==
    url_template = Null \/ url_template = Text("")
Missing(url_template, split_url_template) ==
    \/ url_template = Null \/ url_template = Text("")
    \/ split_url_template = Null \/ split_url_template = Text("")

\* __init__ of a subclass: MarathonBase.__init__ runs first; ChicagoMarathon
\* then keeps event_id. The object, or NoCall when the constructor raises.
NewMarathon(cls, url_template, split_url_template, event_id) ==
    IF Missing(url_template, split_url_template) THEN NoCall
    ELSE IF cls = "Chicago"
    THEN [cls |-> cls, _BASE_URL |-> url_template, _SPLIT_URL |-> split_url_template,
          event_id |-> event_id]
    ELSE [cls |-> cls, _BASE_URL |-> url_template, _SPLIT_URL |-> split_url_template]

\* The URLs of a result rendered from the template of the object
WithTemplate(r, template, flat) ==
    LET render(urls) == [i \in 1..Len(urls) |-> [urls[i] EXCEPT !.template = template]]
    IN  IF r.kind # "return" THEN r
        ELSE IF flat THEN Return(render(r.value))
        ELSE Return(<<render(r.value[1]), render(r.value[2])>>)

TemplateArgs(cls) ==
    {Null, Text(""), Text(IF cls = "Chicago" THEN ChicagoTemplate ELSE UrlTemplate)}
SplitTemplateArgs == {Null, Text(""), Text(SplitTemplate)}
EventIdArgs == {Null, Text(EventId), Text("HALF")}

ObjInit ==
    /\ \E cls \in Marathons, split \in SplitTemplateArgs :
       \E url \in TemplateArgs(cls), event_id \in EventIdArgs :
           /\ cls # "Chicago" => event_id = Null
           /\ call = [fn |-> "__init__", cls |-> cls, url_template |-> url,
                      split_url_template |-> split, event_id |-> event_id]
    /\ ret = NoCall /\ obj = NoCall
    /\ UrlIdle /\ CrawlIdle /\ CleanIdle /\ AgeIdle

\* cls(url_template, split_url_template[, event_id])
Construct ==
    /\ call.fn = "__init__" /\ obj = NoCall /\ ret = NoCall
    /\ obj' = NewMarathon(call.cls, call.url_template, call.split_url_template, call.event_id)
    /\ ret' = IF obj' = NoCall
              THEN Raise("ValueError", "url_template or split_url_template is None")
              ELSE Return(Null)
    /\ UNCHANGED <<call, urlVars, crawlVars, cleanVars, ageVars>>

\* obj.url_template = val: the setter of the property
SetUrlTemplate ==
    /\ call.fn = "__init__" /\ obj # NoCall
    /\ ret' = Raise("Exception", "Attempting to change Result URL of the class")
    /\ UNCHANGED <<call, obj, urlVars, crawlVars, cleanVars, ageVars>>

\* obj.split_url_template = val
SetSplitUrlTemplate ==
    /\ call.fn = "__init__" /\ obj # NoCall
    /\ ret' = Raise("Exception", "Attempting to change Split URL of the class")
    /\ UNCHANGED <<call, obj, urlVars, crawlVars, cleanVars, ageVars>>

\* obj.event_id = val on a ChicagoMarathon: a plain attribute
SetEventId ==
    /\ call.fn = "__init__" /\ obj # NoCall /\ obj.cls = "Chicago"
    /\ \E val \in EventIdArgs : obj' = [obj EXCEPT !.event_id = val]
    /\ ret' = Return(Null)
    /\ UNCHANGED <<call, urlVars, crawlVars, cleanVars, ageVars>>

\* obj.prepare_res_urls(year, pages, ...): reads self.url_template
ObjPrepareResUrls ==
    /\ call.fn = "__init__" /\ obj # NoCall
    /\ \E ps \in {<<"1">>, <<"1", "2">>}, flat \in BOOLEAN :
          ret' = WithTemplate(
                     PrepareResUrls(IF obj.cls = "Chicago" THEN "chicago" ELSE "base", ps, flat),
                     obj._BASE_URL.s, flat)
    /\ UNCHANGED <<call, obj, urlVars, crawlVars, cleanVars, ageVars>>

ObjNext ==
    Construct \/ SetUrlTemplate \/ SetSplitUrlTemplate \/ SetEventId \/ ObjPrepareResUrls

SpecObj == ObjInit /\ [][ObjNext]_vars

Constructing == call.fn = "__init__"

\* C19 as claimed: whatever URL-generation calls and attribute assignments
\* have been made, the result template, the split template and (for Chicago)
\* the event id of a marathon object are the values given to its constructor.
C19_AsClaimed ==
    (Constructing /\ obj # NoCall) =>
        /\ obj._BASE_URL = call.url_template
        /\ obj._SPLIT_URL = call.split_url_template
        /\ obj.cls = "Chicago" => obj.event_id = call.event_id

\* C20: constructing a marathon object of any class with a result template
\* or a split template that is None or empty raises ValueError, with the
\* message "url_template or split_url_template is None", and no object exists.
C20_MissingTemplateRaises ==
    (/\ Constructing
     /\ \/ call.url_template \in {Null, Text("")}
        \/ call.split_url_template \in {Null, Text("")}) =>
        /\ obj = NoCall
        /\ ret # NoCall => ret = Raise("ValueError", "url_template or split_url_template is None")

\* A Chicago object asked for with a result template and an empty split
\* template: the constructor has raised
C20_Witness ==
    /\ Constructing /\ call.cls = "Chicago"
    /\ call.url_template = Text(ChicagoTemplate) /\ call.split_url_template = Text("")
    /\ ret.kind = "raise" /\ ret.exc = "ValueError" /\ obj = NoCall

(***************************************************************************)
(* Further properties of the cleaned tables                                *)
(***************************************************************************)
\* C21 as claimed: every row houston_cleaner outputs has race_state Finished
\* or Started: each DNF, DNS and DQ state of the Houston split parser is
\* collapsed to Started or its row is excluded.
C21_AsClaimed ==
    (Cleaned /\ marathon = "Houston") =>
        \A i \in DOMAIN OutRows : IsFinished(OutRows[i]) \/ IsStarted(OutRows[i])

(***************************************************************************)
(* Imputed paces through gen_full_df                                       *)
(***************************************************************************)
\* One runner over the checkpoints 5k, 20k, half, 25k and finish (or 5k, 20k,
\* 25k, 40k) whose paces were imputed: a pace is a number of hundredths of a
\* second per km, the same at every checkpoint of the row.
MinImputedPace == 29940
MaxImputedPace == 30060
ImputedPaces == MinImputedPace..MaxImputedPace
ImputedCell(key, kind, pace) ==
    IF kind = "recorded"
    THEN NumCell(IntV(RecordedTime(key)), FloatV(pace), FloatV(1200))
    ELSE NumCell(Null, FloatV(pace), Null)
ImputedRow(split_keys, kinds, pace) ==
    ImpRow(StrV(S_Finished),
           [i \in 1..Len(split_keys) |-> ImputedCell(split_keys[i], kinds[i], pace)])

ImputeInit ==
    /\ \E split_keys \in FillKeyLists, pace \in ImputedPaces :
       \E kinds \in [1..Len(split_keys) -> {"recorded", "missing"}] :
           call = [fn |-> "gen_full_df",
                   df |-> <<ImputedRow(split_keys, kinds, pace)>>,
                   miss_indices |-> MissIndices(<<kinds>>, split_keys),
                   split_keys |-> split_keys,
                   drop_invalid_splits |-> FALSE]
    /\ ret = NoCall /\ obj = NoCall
    /\ UrlIdle /\ CrawlIdle /\ CleanIdle /\ AgeIdle

ImputeNext == GenFullDf

SpecImpute == ImputeInit /\ [][ImputeNext]_vars

\* The cells of row r whose time was derived from the pace and the time of
\* the checkpoint before
DerivedCells(r) ==
    {i \in 2..Len(call.split_keys) :
        /\ r \in call.miss_indices[i]
        /\ call.df[r].sp[i].pace # Null
        /\ IsNum(GenFull[r].sp[i - 1].time)}

\* C22: in the table gen_full_df has imputed and rounded, a cell whose time
\* fill_time_speed_based_on_pace derived from its pace and the time of the
\* checkpoint before passes the pace check of valid_splits_time on the pair
\* (k-1, k): the rounded pace times the distance of the checkpoint is within
\* 5 s of the difference of the two rounded times.
C22_DerivedTimePassesCheck ==
    (call.fn = "gen_full_df" /\ ret # NoCall) =>
        \A r \in 1..Len(GenFull) : \A i \in DerivedCells(r) :
            ~PaceMismatch(GenFull[r].sp[i - 1], GenFull[r].sp[i], call.split_keys[i])
C22_Witness ==
    /\ call.fn = "gen_full_df" /\ ret # NoCall
    /\ \E i \in DerivedCells(1) :
          /\ call.split_keys[i] = K_25
          /\ call.df[1].sp[i].pace = FloatV(30050)
          /\ GenFull[1].sp[i].pace = IntV(300)
          /\ i - 1 \in DerivedCells(1)

\* C23 as claimed: in every table gen_full_df returns, the split times of
\* each row are strictly increasing along the course, valid_splits_time having
\* marked every row whose time at a checkpoint is at or above the time at a
\* later one.
C23_AsClaimed ==
    (call.fn = "gen_full_df" /\ ret.kind = "return") =>
        \A r \in 1..Len(ret.value) :
            \A i, j \in 1..Len(call.split_keys) :
                (i < j /\ IsNum(ret.value[r].sp[i].time) /\ IsNum(ret.value[r].sp[j].time))
                    => TenK(ret.value[r].sp[i].time) < TenK(ret.value[r].sp[j].time)

(***************************************************************************)
(* Rows with time-only splits (drop_rows_with_time_only_splits)            *)
(***************************************************************************)
\* Tables of converted rows over the checkpoints of SplitsKeys; the index is
\* the default one, a row being known by its run_no.
MaxTimeOnlyRows == 2
FullCell(t)  == Cell(IntV(t), IntV(300), FloatV(1200))
NoPaceNoSpeed(t) == Cell(IntV(t), Null, Null)
TimeOnlyProfiles ==
    {<<FullCell(1500), FullCell(6000), FullCell(12658)>>,
     <<NoPaceNoSpeed(1500), FullCell(6000), FullCell(12658)>>,
     <<FullCell(1500), NoPaceNoSpeed(6000), FullCell(12658)>>,
     <<FullCell(1500), FullCell(6000), NoPaceNoSpeed(12658)>>,
     <<FullCell(1500), Absent, FullCell(12658)>>,
     <<FullCell(1500), Cell(Null, IntV(300), Null), FullCell(12658)>>,
     <<FullCell(1500), Cell(IntV(6000), IntV(300), Null), FullCell(12658)>>,
     <<FullCell(1500), FullCell(6000), Cell(IntV(12658), Null, FloatV(1200))>>}
TimeOnlyTables ==
    UNION {[1..n -> TimeOnlyProfiles] : n \in 1..MaxTimeOnlyRows}
SkipLists == {{}, {K_20}, {K_5}, {K_20, K_finish}}

TimeOnlyInit ==
    /\ \E t \in TimeOnlyTables, skip \in SkipLists :
           call = [fn |-> "drop_rows_with_time_only_splits",
                   df |-> [r \in 1..Len(t) |->
                              [run_no |-> r, race_state |-> StrV(S_Finished), sp |-> t[r]]],
                   skip_splits |-> skip]
    /\ ret = NoCall /\ obj = NoCall
    /\ UrlIdle /\ CrawlIdle /\ CleanIdle /\ AgeIdle

DropTimeOnly ==
    /\ call.fn = "drop_rows_with_time_only_splits" /\ ret = NoCall
    /\ ret' = Return(DropRowsWithTimeOnlySplits(call.df, call.skip_splits))
    /\ UNCHANGED <<call, obj, urlVars, crawlVars, cleanVars, ageVars>>

TimeOnlyNext == DropTimeOnly

SpecTimeOnly == TimeOnlyInit /\ [][TimeOnlyNext]_vars

\* A split of the row, outside skip_splits, with a time and neither pace nor
\* speed
TimeAlone(row) ==
    \E i \in 1..Len(SplitsKeys) :
        /\ SplitsKeys[i] \notin call.skip_splits
        /\ row.sp[i].time # Null /\ row.sp[i].pace = Null /\ row.sp[i].speed = Null
TimeOnlyDropped == call.fn = "drop_rows_with_time_only_splits" /\ ret.kind = "return"

\* C24: the table drop_rows_with_time_only_splits returns holds no row with
\* a split outside skip_splits that has a time and neither pace nor speed, and
\* holds every row of the input that had no such split, unchanged and in the
\* input order.
C24_TimeOnlyRowsDropped ==
    TimeOnlyDropped =>
        /\ \A j \in 1..Len(ret.value) : ~TimeAlone(ret.value[j])
        /\ \A r \in 1..Len(call.df) :
              ~TimeAlone(call.df[r]) => \E j \in 1..Len(ret.value) : ret.value[j] = call.df[r]
        /\ \A j, k \in 1..Len(ret.value) :
              j < k => ret.value[j].run_no < ret.value[k].run_no
C24_Witness ==
    /\ TimeOnlyDropped
    /\ call.skip_splits = {K_20}
    /\ Len(call.df) = 2 /\ Len(ret.value) = 1
    /\ TimeAlone(call.df[1])
    /\ call.df[2].sp[2] = NoPaceNoSpeed(6000)
    /\ ret.value[1] = call.df[2]

(***************************************************************************)
(* The records a results-page parser yields                                *)
(***************************************************************************)
\* parse is a generator: it creates one item before its loop, assigns the
\* fields of each row to it and yields it. obj is the heap of item objects the
\* call has created, a yielded record is a reference into it, and ret is the
\* position of the generator with the references yielded so far.
Unset == [t |-> "unset"]
NewItem == [f \in ResultItemFields |-> Unset]
Running(next, yielded) == [kind |-> "running", next |-> next, yielded |-> yielded]
Done(yielded, exc) == [kind |-> "done", yielded |-> yielded, exc |-> exc]

\* The assignments of one pass of the loop, in the order of the code, up to
\* the one that raises: the item after the pass and "item" or the exception.
AssignRow(item, url, runner, gender_key, sets_half) ==
    LET a1 == [item EXCEPT !.run_no = runner.run_no, !.age_cat = runner.age_cat]
        a2 == [a1 EXCEPT !.gender = StrV(GenderMatches(url))]
        a3 == IF sets_half THEN [a2 EXCEPT !.half = runner.half] ELSE a2
        a4 == [a3 EXCEPT !.finish = runner.finish]
    IN  IF GenderMatches(url) = <<>> THEN [item |-> a1, exc |-> "IndexError"]
        ELSE IF gender_key \notin ResultItemFields THEN [item |-> a1, exc |-> "KeyError"]
        ELSE IF runner.href = Null THEN [item |-> a4, exc |-> "TypeError"]
        ELSE IF FirstIdp(runner.href.s) = <<>> THEN [item |-> a4, exc |-> "IndexError"]
        ELSE [item |-> [a4 EXCEPT !.idp = StrV(FirstIdp(runner.href.s))], exc |-> "item"]

ItemsInit ==
    /\ \E runners \in Pages(RunnerRows), spider \in {"london", "hamburg"} :
           call = [fn |-> "parse", spider |-> spider,
                   response |-> [url |-> ResultsUrl, runners |-> runners]]
    /\ ret = NoCall /\ obj = NoCall
    /\ UrlIdle /\ CrawlIdle /\ CleanIdle /\ AgeIdle

\* item = LondonItem() / HamburgItem(), before the loop
ParseBegin ==
    /\ call.fn = "parse" /\ ret = NoCall
    /\ obj' = <<NewItem>>
    /\ ret' = Running(1, <<>>)
    /\ UNCHANGED <<call, urlVars, crawlVars, cleanVars, ageVars>>

\* One pass of the loop: the item is assigned the row and yielded
ParseRow ==
    /\ call.fn = "parse" /\ ret.kind = "running"
    /\ ret.next <= Len(call.response.runners)
    /\ LET a == AssignRow(obj[1], call.response.url, call.response.runners[ret.next],
                          IF call.spider = "london" THEN "sex" ELSE "gender",
                          call.spider = "london")
       IN  /\ obj' = [obj EXCEPT ![1] = a.item]
           /\ ret' = IF a.exc = "item"
                     THEN Running(ret.next + 1, Append(ret.yielded, 1))
                     ELSE Done(ret.yielded, a.exc)
    /\ UNCHANGED <<call, urlVars, crawlVars, cleanVars, ageVars>>

ParseEnd ==
    /\ call.fn = "parse" /\ ret.kind = "running"
    /\ ret.next > Len(call.response.runners)
    /\ ret' = Done(ret.yielded, "none")
    /\ UNCHANGED <<call, obj, urlVars, crawlVars, cleanVars, ageVars>>

ItemsNext == ParseBegin \/ ParseRow \/ ParseEnd

SpecItems == ItemsInit /\ [][ItemsNext]_vars

\* The fields the parser reads from a row of the page
FieldsOfRow(runner) ==
    [run_no |-> runner.run_no, age_cat |-> runner.age_cat, finish |-> runner.finish]
FieldsOfItem(item) ==
    [run_no |-> item.run_no, age_cat |-> item.age_cat, finish |-> item.finish]

\* C25 as claimed: at every moment of a parse, each record yielded so far
\* holds the field values of the page row it was yielded for (the j-th record
\* those of the j-th row): parsing a later row does not change it.
C25_AsClaimed ==
    (call.fn = "parse" /\ ret # NoCall) =>
        \A j \in 1..Len(ret.yielded) :
            FieldsOfItem(obj[ret.yielded[j]]) = FieldsOfRow(call.response.runners[j])

(***************************************************************************)
(* request_page                                                            *)
(***************************************************************************)
\* One call of request_page(year, pages, num_results) of MarathonBase or of
\* ChicagoMarathon. call holds the arguments, obj the URLs prepared, the
\* requests sent (in order, with what requests.get did) and the lines printed,
\* ret the position in the method and then its outcome. requests.get returns
\* a response, whatever its HTTP status, or raises ConnectionError.
GetOutcomes == {"200", "404", "ConnectionError"}
Response(url, status) == [t |-> "response", url |-> url, status |-> status]
At(who, men_page) == [kind |-> "running", at |-> who, men_res_page |-> men_page]

\* except requests.exceptions.RequestException, in place of except Exception
CaughtRequestException(exc) == exc = "ConnectionError"
\* except Exception as e
Caught(exc) == exc \in {"ConnectionError", "IndexError"}

\* The try block left by an exception: the handler prints and the method
\* falls off its end, returning None; an exception the handler does not name
\* leaves the method.
Leave(exc) ==
    IF Caught(exc) THEN [ret |-> Return(Null), printed |-> <<exc>>]
    ELSE [ret |-> Raise(exc, "from requests.get"), printed |-> <<>>]

RequestInit ==
    /\ \E which \in {"base", "chicago"}, ps \in PagesLists :
           call = [fn |-> "request_page", which |-> which, pages |-> ps]
    /\ ret = NoCall /\ obj = NoCall
    /\ UrlIdle /\ CrawlIdle /\ CleanIdle /\ AgeIdle

\* curr_url = self.prepare_res_urls(...), before the try block
RequestPrepare ==
    /\ call.fn = "request_page" /\ ret = NoCall
    /\ LET r == PrepareResUrls(call.which, call.pages, FALSE)
       IN  IF r.kind = "raise"
           THEN ret' = r /\ obj' = [kind |-> "io", urls |-> <<>>, sent |-> <<>>, printed |-> <<>>]
           ELSE /\ ret' = At("men", Null)
                /\ obj' = [kind |-> "io", urls |-> r.value, sent |-> <<>>, printed |-> <<>>]
    /\ UNCHANGED <<call, urlVars, crawlVars, cleanVars, ageVars>>

\* requests.get(curr_url[i][0]) for the men (i = 1) or the women (i = 2)
Get(i, o) ==
    IF obj.urls[i] = <<>>
    THEN LET l == Leave("IndexError")
         IN  /\ ret' = l.ret
             /\ obj' = [obj EXCEPT !.printed = @ \o l.printed]
    ELSE LET url == obj.urls[i][1]
         IN  IF o = "ConnectionError"
             THEN LET l == Leave(o)
                  IN  /\ ret' = l.ret
                      /\ obj' = [obj EXCEPT !.sent = Append(@, [url |-> url, outcome |-> o]),
                                            !.printed = @ \o l.printed]
             ELSE /\ obj' = [obj EXCEPT !.sent = Append(@, [url |-> url, outcome |-> o])]
                  /\ ret' = IF i = 1 THEN At("women", Response(url, o))
                            ELSE Return(<<ret.men_res_page, Response(url, o)>>)

GetMen ==
    /\ call.fn = "request_page" /\ ret.kind = "running" /\ ret.at = "men"
    /\ \E o \in GetOutcomes : Get(1, o)
    /\ UNCHANGED <<call, urlVars, crawlVars, cleanVars, ageVars>>

GetWomen ==
    /\ call.fn = "request_page" /\ ret.kind = "running" /\ ret.at = "women"
    /\ \E o \in GetOutcomes : Get(2, o)
    /\ UNCHANGED <<call, urlVars, crawlVars, cleanVars, ageVars>>

RequestNext == RequestPrepare \/ GetMen \/ GetWomen

SpecRequest == RequestInit /\ [][RequestNext]_vars

RequestDone == call.fn = "request_page" /\ ret.kind \in {"return", "raise"}
SentUrls == {obj.sent[i].url : i \in 1..Len(obj.sent)}
Failed(i) == obj.sent[i].outcome = "ConnectionError"
HasBothUrls == obj.urls # <<>> /\ obj.urls[1] # <<>> /\ obj.urls[2] # <<>>

\* C26 as claimed: the two requests of request_page fail independently (the
\* women request is made and handled whether or not the men request
\* failed), each failure is logged, no request is sent twice, and no
\* exception of a failed request leaves request_page.
C26_AsClaimed ==
    RequestDone =>
        /\ HasBothUrls => SentUrls = {obj.urls[1][1], obj.urls[2][1]}
        /\ Len(obj.printed) >= Cardinality({i \in 1..Len(obj.sent) : Failed(i)})
        /\ Len(obj.sent) = Cardinality(SentUrls)
        /\ obj.sent # <<>> => ret.kind = "return"

\* C26, amended: one handler serves both requests. A request that raises is
\* logged once and ends the method, which returns None: after a failed men
\* request the women request is not made. A response is returned whatever its
\* status, with nothing logged. No request is sent twice, the men request
\* comes first, and no exception leaves request_page once a request was sent
\* or a URL was found missing.
C26_OneHandlerForBoth ==
    RequestDone =>
        /\ \A i \in 1..Len(obj.sent) :
              Failed(i) => (i = Len(obj.sent) /\ obj.printed = <<"ConnectionError">>
                            /\ ret = Return(Null))
        /\ (HasBothUrls /\ \A i \in 1..Len(obj.sent) : ~Failed(i)) =>
              /\ obj.printed = <<>>
              /\ [i \in 1..Len(obj.sent) |-> obj.sent[i].url] = <<obj.urls[1][1], obj.urls[2][1]>>
              /\ ret = Return(<<Response(obj.urls[1][1], obj.sent[1].outcome),
                                Response(obj.urls[2][1], obj.sent[2].outcome)>>)
        /\ Len(obj.sent) = Cardinality(SentUrls)
        /\ ret.kind = "raise" => (obj.sent = <<>> /\ obj.urls = <<>>)
C26_Witness ==
    /\ RequestDone /\ HasBothUrls
    /\ Len(obj.sent) = 1 /\ Failed(1)
    /\ obj.sent[1].url = obj.urls[1][1]
    /\ ret = Return(Null)

(***************************************************************************)
(* The Boston 2018-2023 split parser                                       *)
(***************************************************************************)
MaxExtraRows == 2
\* BostonSplitItem.get_split_keys() and the row titles in self.splits_names
BostonKeys == <<K_5, K_10, K_15, K_20, K_half, K_25, K_30, K_35, K_40, K_finish>>
BostonTitles == <<"5K", "10K", "15K", "20K", "HALF", "25K", "30K", "35K", "40K", "Finish Net">>
splits_names == {BostonTitles[k] : k \in 1..Len(BostonTitles)}
Unbound == [t |-> "unbound"]
Dashes == <<StrV(S_Dash), StrV(S_Dash), StrV(S_Dash)>>

\* keys[n] of Python for a list of ten keys: the 1-based position, 0 when
\* the index is out of range
PyIndex(n) == IF n \in 0..9 THEN n + 1 ELSE IF n \in (-10)..(-1) THEN n + 11 ELSE 0

\* The loop over the rows of the splits table from row i on; extra_splits and
\* the variables time, pace, speed (`triple`) are those of the method, sp the
\* split fields of the item set so far.
RECURSIVE BostonLoop(_, _, _, _, _)
BostonLoop(rows, i, extra_splits, triple, sp) ==
    IF i > Len(rows) THEN [sp |-> sp, exc |-> "none"]
    ELSE LET named == rows[i].title \in splits_names
             extra == IF named THEN extra_splits ELSE extra_splits + 1
             tps   == IF ~named THEN triple
                      ELSE IF rows[i].estimated THEN Dashes ELSE rows[i].cells
             k     == PyIndex((i - 1) - extra)
         IN  IF tps = Unbound THEN [sp |-> sp, exc |-> "UnboundLocalError"]
             ELSE IF k = 0 THEN [sp |-> sp, exc |-> "IndexError"]
             ELSE BostonLoop(rows, i + 1, extra, tps, [sp EXCEPT ![k] = tps])

\* re.search("(\d{2}-\d{2})|(\d{2}.+?)", age_group).group(), <<>> for no match
AgeGroupMatch(g) ==
    LET two(i)  == i + 1 <= Len(g) /\ IsDigit(g[i]) /\ IsDigit(g[i + 1])
        alt1(i) == two(i) /\ i + 4 <= Len(g) /\ g[i + 2] = "-" /\ two(i + 3)
        alt2(i) == two(i) /\ i + 2 <= Len(g) /\ g[i + 2] # "\n"
        hits    == {i \in 1..Len(g) : alt1(i) \/ alt2(i)}
    IN  IF hits = {} THEN <<>>
        ELSE LET i == CHOOSE a \in hits : \A b \in hits : a <= b
             IN  IF alt1(i) THEN SubSeq(g, i, i + 4) ELSE SubSeq(g, i, i + 2)
AgeCatOfGroup(age_group) ==
    IF age_group = Null \/ age_group = StrV(<<>>) THEN Unset
    ELSE IF AgeGroupMatch(age_group.s) = <<>> THEN age_group
    ELSE StrV(AgeGroupMatch(age_group.s))

\* Boston1823.parse_split, on the rows from first_split_idx on
boston_parse_split(response) ==
    IF FirstIdp(response.url) = <<>> THEN Parsed(<<>>, "IndexError")
    ELSE LET loop == BostonLoop(response.splits, 1, 0, Unbound,
                                [k \in 1..Len(BostonKeys) |-> Unset])
         IN  IF loop.exc # "none" THEN Parsed(<<>>, loop.exc)
             ELSE Parsed(<<[idp |-> StrV(FirstIdp(response.url)),
                            race_state |-> response.race_state,
                            last_split |-> response.last_split,
                            age_cat |-> AgeCatOfGroup(response.age_group),
                            sp |-> loop.sp]>>, "none")

\* The splits table of a runner: the ten named rows in course order, one of
\* them at most an estimate, with mile rows at the places `gaps` lists (a mile
\* row at gap g stands just before the g-th named row, at gap 11 after the
\* last).
NamedRow(k, est) ==
    [title |-> BostonTitles[k], estimated |-> (k = est),
     cells |-> <<StrV(<<"t">> \o BostonKeys[k]), StrV(<<"p">> \o BostonKeys[k]),
                 StrV(<<"v">> \o BostonKeys[k])>>]
MileRow ==
    [title |-> "20 Miles", estimated |-> FALSE,
     cells |-> <<StrV(<<"t", "m">>), StrV(<<"p", "m">>), StrV(<<"v", "m">>)>>]
RECURSIVE BostonRows(_, _, _)
BostonRows(gaps, est, k) ==
    LET miles == [j \in 1..Cardinality({j \in 1..Len(gaps) : gaps[j] = k}) |-> MileRow]
    IN  IF k > Len(BostonTitles) THEN miles
        ELSE miles \o <<NamedRow(k, est)>> \o BostonRows(gaps, est, k + 1)
Gaps ==
    {g \in SeqsUpTo(1..(Len(BostonTitles) + 1), MaxExtraRows) :
        \A j \in 1..(Len(g) - 1) : g[j] <= g[j + 1]}
AgeGroups == {Null, StrV(<<"F", "e", "m", "a", "l", "e", " ", "1", "8", "-", "3", "9">>), StrV(<<"M", "a", "l", "e", " ", "8", "0", "+">>)}

BostonInit ==
    /\ \E gaps \in Gaps, est \in 0..Len(BostonTitles), age_group \in AgeGroups :
           call = [fn |-> "boston.parse_split",
                   response |-> [url |-> DetailUrl, race_state |-> StrV(S_Finished),
                                 last_split |-> StrV(S_Finish), age_group |-> age_group,
                                 splits |-> BostonRows(gaps, est, 1)]]
    /\ ret = NoCall /\ obj = NoCall
    /\ UrlIdle /\ CrawlIdle /\ CleanIdle /\ AgeIdle

BostonParseSplit ==
    /\ call.fn = "boston.parse_split" /\ ret = NoCall
    /\ ret' = boston_parse_split(call.response)
    /\ UNCHANGED <<call, obj, urlVars, crawlVars, cleanVars, ageVars>>

BostonNext == BostonParseSplit

SpecBoston == BostonInit /\ [][BostonNext]_vars

\* The triple of the named row of key k on the page
OwnTriple(k) ==
    LET r == CHOOSE r \in 1..Len(call.response.splits) :
                 call.response.splits[r].title = BostonTitles[k]
    IN  IF call.response.splits[r].estimated THEN Dashes
        ELSE call.response.splits[r].cells

\* C27 as claimed: for every interleaving of mile rows among the ten named
\* rows, parse_split yields a record in which each key k_5 ... k_finish holds
\* the (time, pace, speed) of its own named row, no mile row having changed it.
C27_AsClaimed ==
    (call.fn = "boston.parse_split" /\ ret # NoCall) =>
        /\ ret.exc = "none"
        /\ Len(ret.items) = 1
        /\ \A k \in 1..Len(BostonKeys) : ret.items[1].sp[k] = OwnTriple(k)

(***************************************************************************)
(* The frame a cleaner is given                                            *)
(***************************************************************************)
\* A cleaner works on the frame its local name df is bound to. The steps up
\* to the first statement that binds df to the result of a call returning a
\* new frame change that frame in place (drop(..., inplace=True), dropna
\* (inplace=True), assignments to df.loc[...] and to df[column]); obj records
\* the frame the caller passed as it is after the call, and whether the frame
\* returned is that one.
WorkingFrameIsArgument(m) == "argument"
\* df = df.copy(), the first statement of every cleaner
WorkingFrame(m) == "copy"

\* The working frame when df is first bound to another frame: at step 3 for
\* London, Boston and Houston, at step 8 for Hamburg, Stockholm and Chicago.
FirstFrame(m, df) ==
    IF m \in {"London", "Boston", "Houston"} THEN ReplaceValueInCols(df)
    ELSE AddRaceState(AddLastSplit(ConvertSplitDtype(ConvertToSec(
             DropNullByCol(DropNotStarted(ReplaceValueInCols(df)),
                           IF m = "Stockholm" THEN {"yob", "gender"}
                           ELSE {"age_cat", "gender"})))))
ArgumentAfter(m, df) ==
    IF WorkingFrame(m) = "copy" THEN df ELSE FirstFrame(m, df)

\* A call of the cleaner of the marathon on the raw table; the last
\* statement, df = df.convert_dtypes(), binds df to a new frame.
CleanFrame ==
    /\ out = NoCall
    /\ out' = Return(Cleaner(marathon, table))
    /\ obj' = [kind |-> "frames", argument |-> ArgumentAfter(marathon, table),
               returned |-> "new"]
    /\ UNCHANGED <<marathon, table, call, ret, urlVars, crawlVars, ageVars>>

FrameNext == AddRow \/ CleanFrame

SpecFrame == CleanInit /\ [][FrameNext]_vars

MaxSpeedRows == 2
V_limit == <<"2", "2", ".", "0", "0">>
V_over  == <<"2", "2", ".", "0", "1">>
SpeedTexts == {Null, StrV(V_12), StrV(V_limit), StrV(V_over), StrV(V_fast)}
SpeedProfile(v5, vf) ==
    <<Cell(StrV(T_1), StrV(P_mmss), v5), Ran(T_2), Cell(StrV(T_3), StrV(P_mmss), vf)>>
SpeedRows(m) ==
    {SiteRow(m, UsualDemo(m), SpeedProfile(v5, vf)) : v5 \in SpeedTexts, vf \in SpeedTexts}
RECURSIVE Numbered(_)
Numbered(rows) ==
    IF rows = <<>> THEN <<>> ELSE AddTo(Numbered(SubSeq(rows, 1, Len(rows) - 1)), rows[Len(rows)])

SpeedInit ==
    /\ marathon \in {"London", "Hamburg"}
    /\ \E t \in UNION {[1..n -> SpeedRows(marathon)] : n \in 1..MaxSpeedRows} :
           table = Numbered(t)
    /\ out = NoCall
    /\ UrlIdle /\ CrawlIdle /\ AgeIdle /\ CallIdle

SpeedNext == LondonClean \/ HamburgClean

SpecSpeed == SpeedInit /\ [][SpeedNext]_vars

\* The speeds of a raw row that are above 22.0 km/h
OverLimit(r) == \E i \in DOMAIN r.sp : r.sp[i].speed \in {StrV(V_over), StrV(V_fast)}

\* C29: after london_cleaner or hamburg_cleaner no output row has a split
\* speed above 22.0 km/h, and a runner whose split speeds are all at most
\* 22.0 km/h (or missing) is still in the output.
C29_SpeedFilter ==
    (Cleaned /\ marathon \in {"London", "Hamburg"}) =>
        /\ \A j \in DOMAIN OutRows : \A i \in DOMAIN OutRows[j].sp :
              OutRows[j].sp[i].speed.t = "float" => OutRows[j].sp[i].speed.h <= 2200
        /\ \A r \in DOMAIN table :
              (\A i \in DOMAIN table[r].sp : table[r].sp[i].speed \in SpeedTexts /\ ~OverLimit(table[r]))
                  => r \in OutRunNos
C29_Witness ==
    /\ Cleaned /\ marathon = "Hamburg"
    /\ Len(table) = 2
    /\ table[1].sp[3].speed = StrV(V_over)
    /\ table[2].sp[3].speed = StrV(V_limit) /\ table[2].sp[1].speed = Null
    /\ OutRunNos = {2}

(***************************************************************************)
(* Years of birth through stockholm_cleaner                                *)
(***************************************************************************)
\* Stockholm runners of every two-digit year of birth, or with none, who
\* finished or dropped out after 20k.
MaxYob == 99
Yobs == {Null} \cup {IntV(y) : y \in 0..MaxYob}
YobRows ==
    {SiteRow("Stockholm", <<Null, StrV(S_M), yob>>, sp) :
        yob \in Yobs, sp \in {Finisher, UpTo20k}}

YobInit ==
    /\ marathon = "Stockholm"
    /\ \E r \in YobRows : table = Numbered(<<r>>)
    /\ out = NoCall
    /\ UrlIdle /\ CrawlIdle /\ AgeIdle /\ CallIdle

YobNext == StockholmClean

SpecYob == YobInit /\ [][YobNext]_vars

\* The age of a runner in the year of the marathon: a two-digit year of birth
\* up to that of the marathon is of this century, a later one of the last.
AgeInYear(yob) ==
    IF yob <= StockholmYear % 100 THEN (StockholmYear % 100) - yob
    ELSE (StockholmYear % 100) + 100 - yob
Buckets ==
    {<<18, 39, AC_18_39>>, <<40, 44, AC_40_44>>, <<45, 49, AC_45_49>>,
     <<50, 54, AC_50_54>>, <<55, 59, AC_55_59>>, <<60, 64, AC_60_64>>,
     <<65, 69, AC_65_69>>, <<70, 200, AC_70plus>>}

====
